---- MODULE Spec2Model ----
(***************************************************************************)
(* A model of the Xbox virtual controller server (pc-server):               *)
(*   session_manager.py  SessionManager   (the session registry)            *)
(*   controller.py       ControllerManager / VirtualController              *)
(*   server.py           ControllerServer (connection handlers, start/stop) *)
(*                                                                         *)
(* The server runs on one asyncio event loop: code between two awaits that  *)
(* really suspend runs atomically.  The registry lock is never held across  *)
(* a suspension (the bodies of add_player and remove_player contain no      *)
(* await), so add_player and remove_player are single atomic steps.         *)
(*                                                                         *)
(* Floats are modelled as integers in units of 1/Scale.                     *)
(***************************************************************************)
EXTENDS Integers, Sequences, FiniteSets, TLC

(***************************************************************************)
(* Program constants and model bounds                                       *)
(***************************************************************************)
MAX_PLAYERS == 4
MAX_CONTROLLERS == 4
\* Python's None where a player id is expected (player ids are 1..4).
None == 0
\* Float unit: the integer v stands for the float v / Scale.
Scale == 2

\* Number of connections that may be between accept and the receive loop at
\* the same time.
MaxHandshaking == 1
\* Number of connections the message-level specification has open at a time.
LoopConns == 2
\* Number of connections the snapshot-level specification has open at a time.
InputConns == 1
\* Number of times the virtual device provider fails to create a device.
MaxDevFailures == 1
\* Number of times the clock read by datetime.now() advances.
MaxClock == 2
\* Number of connections the activity-level specification has open at a time.
ActivityConns == 1
\* Number of connections the device-level specification has open at a time.
DeviceConns == 2
\* Number of connections the broadcast-level specification registers.
BcastConns == 3
\* Length of the longest key list given to key_combination.
MaxKeys == 3
\* Number of connections the isolation-level specification has open at a time.
IsoConns == 2
\* Number of connections the queue-level specification has open at a time.
FifoConns == 1
\* Number of frames that may wait on one connection.
MaxInbox == 2
\* Number of connections the observer-level specification registers.
ObsConns == 2

\* Connection objects (websockets).  A name is free for a new connection once
\* its handler has returned and the registry no longer refers to it, so the
\* registry can be full while MaxHandshaking further connections are served.
NumConns == MAX_PLAYERS + MaxHandshaking
Conns == 1..NumConns
Players == 1..MAX_PLAYERS

\* The names of VirtualController.BUTTON_MAP.
ButtonNames ==
    {"a", "b", "x", "y", "lb", "rb", "start", "back", "guide", "l3", "r3",
     "dpad_up", "dpad_down", "dpad_left", "dpad_right"}

(***************************************************************************)
(* Small helpers on Python dicts, modelled as functions                     *)
(***************************************************************************)
\* del d[k]
DictDel(d, k) == [x \in (DOMAIN d) \ {k} |-> d[x]]

\* d[k] = v
DictSet(d, k, v) == [x \in (DOMAIN d) \cup {k} |-> IF x = k THEN v ELSE d[x]]

\* d.get(k, default)
DictGet(d, k, default) == IF k \in DOMAIN d THEN d[k] ELSE default

EmptyDict == [x \in {} |-> 0]

Min2(a, b) == IF a < b THEN a ELSE b
Max2(a, b) == IF a > b THEN a ELSE b

\* One entry of the record of what an operation did (device calls, GUI updates).
Ev(kind, id) == [kind |-> kind, id |-> id]

(***************************************************************************)
(* controller.py                                                            *)
(***************************************************************************)
\* ControllerState.default()
DefaultState ==
    [buttons  |-> [n \in ButtonNames |-> FALSE],
     triggers |-> [n \in {"lt", "rt"} |-> 0],
     axes     |-> [n \in {"left_x", "left_y", "right_x", "right_y"} |-> 0]]

\* The report of a freshly created (or reset) vgamepad device: nothing pressed,
\* triggers and sticks at rest.  fault says whether the driver has failed, so
\* that reset() and update() on the device raise.
NeutralReport ==
    [pressed |-> {}, lt |-> 0, rt |-> 0,
     left_x |-> 0, left_y |-> 0, right_x |-> 0, right_y |-> 0, fault |-> FALSE]

\* VirtualController.__init__ : gamepad is <<>> for None, <<report>> for a device.
NewController(player_id) ==
    [player_id |-> player_id, gamepad |-> <<>>, state |-> DefaultState,
     connected |-> FALSE]

\* VirtualController.connect : ok says whether vg.VX360Gamepad() succeeded.
Connect(ctrl, ok) ==
    IF ok THEN [ctrl EXCEPT !.gamepad = <<NeutralReport>>, !.connected = TRUE]
    ELSE ctrl

\* A faulty disconnect that lets a failing reset escape: the handle is kept.
DisconnectRaising(ctrl) ==
    IF ctrl.gamepad # <<>> /\ ctrl.gamepad[1].fault
    THEN [ctrl |-> ctrl,
          events |-> <<Ev("device_reset_raised", ctrl.player_id)>>,
          raised |-> TRUE]
    ELSE [ctrl |-> [ctrl EXCEPT !.gamepad = <<>>, !.connected = FALSE],
          events |-> IF ctrl.gamepad # <<>>
                     THEN <<Ev("device_reset", ctrl.player_id),
                            Ev("device_destroy", ctrl.player_id)>>
                     ELSE <<>>,
          raised |-> FALSE]

\* VirtualController.disconnect : with a device, reset() and update() are
\* tried and whatever they raise is swallowed, then the handle is dropped,
\* which destroys the device.  Yields the controller afterwards, the device
\* calls made and whether an exception leaves the method.
Disconnect(ctrl) ==
    [ctrl |-> [ctrl EXCEPT !.gamepad = <<>>, !.connected = FALSE],
     events |-> IF ctrl.gamepad # <<>>
                THEN <<Ev(IF ctrl.gamepad[1].fault THEN "device_reset_raised"
                          ELSE "device_reset", ctrl.player_id),
                       Ev("device_destroy", ctrl.player_id)>>
                ELSE <<>>,
     raised |-> FALSE]

\* VirtualController.is_connected
IsConnected(ctrl) == ctrl.connected /\ ctrl.gamepad # <<>>

\* gamepad.press_button / gamepad.release_button : set or clear the button's bit
\* in the device report.
PressButton(report, n) == [report EXCEPT !.pressed = @ \cup {n}]

ReleaseButton(report, n) == [report EXCEPT !.pressed = @ \ {n}]

\* The button loop of update_state over buttons.items(): names outside
\* BUTTON_MAP are skipped.  Each name occurs once, so the order is immaterial.
RECURSIVE ApplyButtons(_, _, _)
ApplyButtons(report, buttons, names) ==
    IF names = {} THEN report
    ELSE LET n == CHOOSE x \in names : TRUE
             r == IF n \in ButtonNames
                  THEN IF buttons[n] THEN PressButton(report, n)
                       ELSE ReleaseButton(report, n)
                  ELSE report
         IN  ApplyButtons(r, buttons, names \ {n})

\* A faulty clamp that forgets the lower limit.
ClampUpperOnly(lo, hi, v) == Min2(hi, v)

\* max(lo, min(hi, v))
Clamp(lo, hi, v) == Max2(lo, Min2(hi, v))

\* gamepad.update() of update_state raises: the driver of the device has
\* failed.
UpdateRaises(ctrl) == IsConnected(ctrl) /\ ctrl.gamepad[1].fault

\* VirtualController.update_state : when update() raises, nothing reaches
\* the device and the snapshot is not stored.
UpdateState(ctrl, buttons, triggers, axes) ==
    IF ~IsConnected(ctrl) THEN ctrl
    ELSE IF UpdateRaises(ctrl) THEN ctrl
    ELSE LET r1 == ApplyButtons(ctrl.gamepad[1], buttons, DOMAIN buttons)
             r2 == [r1 EXCEPT
                      !.lt = Clamp(0, Scale, DictGet(triggers, "lt", 0)),
                      !.rt = Clamp(0, Scale, DictGet(triggers, "rt", 0)),
                      !.left_x  = Clamp(-Scale, Scale, DictGet(axes, "left_x", 0)),
                      !.left_y  = Clamp(-Scale, Scale, DictGet(axes, "left_y", 0)),
                      !.right_x = Clamp(-Scale, Scale, DictGet(axes, "right_x", 0)),
                      !.right_y = Clamp(-Scale, Scale, DictGet(axes, "right_y", 0))]
         IN  [ctrl EXCEPT !.gamepad = <<r2>>,
                          !.state = [buttons |-> buttons, triggers |-> triggers,
                                     axes |-> axes]]

\* ControllerManager.create_controller : devOk says whether the virtual device
\* provider can create a device.  Yields the new controller map and the device
\* calls made.
CreateController(controllers, player_id, devOk) ==
    IF player_id < 1 \/ player_id > MAX_CONTROLLERS
    THEN [controllers |-> controllers, events |-> <<>>]
    ELSE IF player_id \in DOMAIN controllers
    THEN [controllers |-> controllers, events |-> <<>>]
    ELSE IF devOk
    THEN [controllers |->
              DictSet(controllers, player_id,
                      Connect(NewController(player_id), TRUE)),
          events |-> <<Ev("device_create", player_id)>>]
    ELSE [controllers |-> controllers,
          events |-> <<Ev("device_create_failed", player_id)>>]

\* ControllerManager.get_controller : <<>> for None.
GetController(controllers, player_id) ==
    IF player_id \in DOMAIN controllers THEN <<controllers[player_id]>> ELSE <<>>

\* ControllerManager.remove_controller : the del is reached only if
\* disconnect() returns.
RemoveController(controllers, player_id) ==
    IF player_id \in DOMAIN controllers
    THEN LET d == Disconnect(controllers[player_id])
         IN  [controllers |-> IF d.raised THEN controllers
                              ELSE DictDel(controllers, player_id),
              events |-> d.events, raised |-> d.raised]
    ELSE [controllers |-> controllers, events |-> <<>>, raised |-> FALSE]

\* The device calls of disconnect_all: those of disconnect() per controller.
RECURSIVE DestroyEvents(_, _)
DestroyEvents(controllers, ids) ==
    IF ids = {} THEN <<>>
    ELSE LET i == CHOOSE x \in ids : \A y \in ids : x <= y
         IN  Disconnect(controllers[i]).events
             \o DestroyEvents(controllers, ids \ {i})

\* A faulty disconnect_all that forgets to clear the controller map.
DisconnectAllKeeping(controllers) ==
    [controllers |-> controllers,
     events |-> DestroyEvents(controllers, DOMAIN controllers)]

\* ControllerManager.disconnect_all : clear() is reached only if every
\* disconnect() returns.
DisconnectAll(controllers) ==
    [controllers |->
         IF \E p \in DOMAIN controllers : Disconnect(controllers[p]).raised
         THEN controllers ELSE EmptyDict,
     events |-> DestroyEvents(controllers, DOMAIN controllers)]

(***************************************************************************)
(* mouse_keyboard.py : the one mouse and keyboard sink of the host.         *)
(* The state of a MouseKeyboardController is the pair of flags               *)
(*   left, right : left_button_pressed, right_button_pressed                *)
(* Each operation yields the new flags and the calls made on pynput.         *)
(***************************************************************************)
\* MouseKeyboardController.mouse_sensitivity
mouse_sensitivity == 2

\* MouseKeyboardController.__init__
NewMouseKeyboard == [left |-> FALSE, right |-> FALSE]

\* int(x) for the float n / d: truncation towards zero.
IntTrunc(n, d) == IF n >= 0 THEN n \div d ELSE -((-n) \div d)

\* Button.left if button == "left" else Button.right
ButtonOf(button) == IF button = "left" THEN "left" ELSE "right"

\* MouseKeyboardController.move_mouse : deltas in units of 1/Scale.
MoveMouse(s, delta_x, delta_y) ==
    LET dx == IntTrunc(delta_x * mouse_sensitivity, Scale)
        dy == IntTrunc(delta_y * mouse_sensitivity, Scale)
    IN  [mk |-> s,
         events |-> IF dx # 0 \/ dy # 0 THEN <<Ev("mouse_move", <<dx, dy>>)>>
                    ELSE <<>>]

\* MouseKeyboardController.click
Click(s, button) == [mk |-> s, events |-> <<Ev("mouse_click", ButtonOf(button))>>]

\* MouseKeyboardController.press_mouse
PressMouse(s, button) ==
    IF button = "left" /\ ~s.left
    THEN [mk |-> [s EXCEPT !.left = TRUE],
          events |-> <<Ev("mouse_press", ButtonOf(button))>>]
    ELSE IF button = "right" /\ ~s.right
    THEN [mk |-> [s EXCEPT !.right = TRUE],
          events |-> <<Ev("mouse_press", ButtonOf(button))>>]
    ELSE [mk |-> s, events |-> <<>>]

\* MouseKeyboardController.release_mouse
ReleaseMouse(s, button) ==
    IF button = "left" /\ s.left
    THEN [mk |-> [s EXCEPT !.left = FALSE],
          events |-> <<Ev("mouse_release", ButtonOf(button))>>]
    ELSE IF button = "right" /\ s.right
    THEN [mk |-> [s EXCEPT !.right = FALSE],
          events |-> <<Ev("mouse_release", ButtonOf(button))>>]
    ELSE [mk |-> s, events |-> <<>>]

\* MouseKeyboardController.scroll
Scroll(s, dx, dy) == [mk |-> s, events |-> <<Ev("mouse_scroll", <<dx, dy>>)>>]

\* MouseKeyboardController.type_text
TypeText(s, text) ==
    [mk |-> s, events |-> IF text # "" THEN <<Ev("key_type", text)>> ELSE <<>>]

\* The names of press_key's key_map.
KeyMapNames ==
    {"enter", "space", "backspace", "tab", "escape", "up", "down", "left",
     "right", "ctrl", "alt", "shift", "delete", "home", "end", "pageup",
     "pagedown", "f1", "f2", "f3", "f4", "f5", "f6", "f7", "f8", "f9", "f10",
     "f11", "f12"}

\* The names of key_combination's key_map.
ComboKeyMapNames == {"ctrl", "alt", "shift", "win"}

\* The key strings of length 1 that messages carry.
SingleChars == {"c", "C", "v"}

\* str.lower() on the key strings that messages carry.
Lower(k) ==
    CASE k = "ENTER" -> "enter"
      [] k = "Ctrl" -> "ctrl"
      [] k = "C" -> "c"
      [] OTHER -> k

\* keyboard.press(k); keyboard.release(k)
Tap(k) == <<Ev("key_press", k), Ev("key_release", k)>>

\* MouseKeyboardController.press_key
PressKey(s, key) ==
    [mk |-> s,
     events |-> IF Lower(key) \in KeyMapNames THEN Tap(Lower(key))
                ELSE IF key \in SingleChars THEN Tap(key)
                ELSE <<>>]

\* key_combination: the modifiers among keys[:-1], in list order.
RECURSIVE Pressed(_)
Pressed(keys) ==
    IF Len(keys) <= 1 THEN <<>>
    ELSE (IF Lower(Head(keys)) \in ComboKeyMapNames
          THEN <<Lower(Head(keys))>> ELSE <<>>) \o Pressed(Tail(keys))

\* One event of the given kind per key, in list order.
RECURSIVE KeyEvents(_, _)
KeyEvents(kind, keys) ==
    IF keys = <<>> THEN <<>>
    ELSE <<Ev(kind, Head(keys))>> \o KeyEvents(kind, Tail(keys))

\* reversed(seq)
RECURSIVE Reversed(_)
Reversed(seq) ==
    IF seq = <<>> THEN <<>> ELSE Reversed(Tail(seq)) \o <<Head(seq)>>

\* MouseKeyboardController.key_combination, for a non-empty list.
KeyCombination(s, keys) ==
    LET pressed == Pressed(keys)
        final_key == keys[Len(keys)]
    IN  [mk |-> s,
         events |-> KeyEvents("key_press", pressed)
                    \o (IF Lower(final_key) \in ComboKeyMapNames
                        THEN Tap(Lower(final_key))
                        ELSE IF final_key \in SingleChars THEN Tap(final_key)
                        ELSE <<>>)
                    \o KeyEvents("key_release", Reversed(pressed))]

\* get_mouse_keyboard_controller : the singleton, created on first use.
GetMouseKeyboardController(m) == IF m = <<>> THEN <<NewMouseKeyboard>> ELSE m

(***************************************************************************)
(* session_manager.py and the two observers server.py wires into it.        *)
(* A registry state R is a record                                           *)
(*   sessions    : player id -> PlayerSession                               *)
(*   w2p         : websocket -> player id      (websocket_to_player)        *)
(*   controllers : player id -> VirtualController                           *)
(*   shown       : player id -> BOOLEAN, what on_player_update last told    *)
(*                 the GUI about the player                                 *)
(*   now         : what datetime.now() returns                              *)
(* Each operation yields the new registry state, its return value and the   *)
(* device calls and notifications it made.                                  *)
(***************************************************************************)
\* PlayerSession(player_id, websocket): both timestamps default to
\* datetime.now().
NewSession(player_id, websocket, now) ==
    [player_id |-> player_id, websocket |-> websocket,
     connected_at |-> now, last_input_at |-> now]

\* A faulty _get_available_id that scans the ids from the top.
RECURSIVE LastFree(_, _)
LastFree(sessions, i) ==
    IF i < 1 THEN None
    ELSE IF i \notin DOMAIN sessions THEN i
    ELSE LastFree(sessions, i - 1)

GetAvailableIdFromTop(sessions) == LastFree(sessions, MAX_PLAYERS)

\* SessionManager._get_available_id : the loop over range(1, MAX_PLAYERS + 1).
RECURSIVE FirstFree(_, _)
FirstFree(sessions, i) ==
    IF i > MAX_PLAYERS THEN None
    ELSE IF i \notin DOMAIN sessions THEN i
    ELSE FirstFree(sessions, i + 1)

GetAvailableId(sessions) == FirstFree(sessions, 1)

\* ControllerServer._on_player_connected : create_controller, then
\* on_player_update, which raises if the GUI no longer accepts calls.
OnPlayerConnected(R, player_id, devOk) ==
    LET cc == CreateController(R.controllers, player_id, devOk)
    IN  IF R.gui
        THEN [reg |-> [R EXCEPT !.controllers = cc.controllers,
                                !.shown = [@ EXCEPT ![player_id] = TRUE]],
              events |-> cc.events \o <<Ev("shown_connected", player_id)>>]
        ELSE [reg |-> [R EXCEPT !.controllers = cc.controllers],
              events |-> cc.events \o <<Ev("observer_raised", player_id)>>]

\* ControllerServer._on_player_disconnected : remove_controller, then
\* on_player_update, which raises if the GUI no longer accepts calls.
OnPlayerDisconnected(R, player_id) ==
    LET rc == RemoveController(R.controllers, player_id)
    IN  IF rc.raised
        THEN [reg |-> [R EXCEPT !.controllers = rc.controllers],
              events |-> rc.events]
        ELSE IF R.gui
        THEN [reg |-> [R EXCEPT !.controllers = rc.controllers,
                                !.shown = [@ EXCEPT ![player_id] = FALSE]],
              events |-> rc.events \o <<Ev("shown_disconnected", player_id)>>]
        ELSE [reg |-> [R EXCEPT !.controllers = rc.controllers],
              events |-> rc.events \o <<Ev("observer_raised", player_id)>>]

\* A faulty early return of add_player that notifies the observer again.
AddPlayerKnownRenotify(R, websocket) ==
    LET cb == OnPlayerConnected(R, R.w2p[websocket], TRUE)
    IN  [reg |-> cb.reg, ret |-> R.w2p[websocket], events |-> cb.events]

\* SessionManager.add_player, the branch taken for a connection that is
\* already registered.
AddPlayerKnown(R, websocket) ==
    [reg |-> R, ret |-> R.w2p[websocket], events |-> <<>>]

\* A faulty add_player that lets an exception of the observer escape: the
\* caller gets no player id.
AddPlayerNewPropagating(R, websocket, player_id, devOk) ==
    LET R1 == [R EXCEPT
                 !.sessions = DictSet(@, player_id,
                                      NewSession(player_id, websocket, R.now)),
                 !.w2p = DictSet(@, websocket, player_id)]
        cb == OnPlayerConnected(R1, player_id, devOk)
    IN  [reg |-> cb.reg, ret |-> IF R.gui THEN player_id ELSE None,
         events |-> cb.events]

\* SessionManager.add_player, the branch that creates the session.  What the
\* observer raises is caught and logged.
AddPlayerNew(R, websocket, player_id, devOk) ==
    LET R1 == [R EXCEPT
                 !.sessions = DictSet(@, player_id,
                                      NewSession(player_id, websocket, R.now)),
                 !.w2p = DictSet(@, websocket, player_id)]
        cb == OnPlayerConnected(R1, player_id, devOk)
    IN  [reg |-> cb.reg, ret |-> player_id, events |-> cb.events]

\* A faulty add_player that, when no id is free, hands out the last id again.
AddPlayerEvicting(R, websocket, devOk) ==
    IF websocket \in DOMAIN R.w2p THEN AddPlayerKnown(R, websocket)
    ELSE LET player_id == GetAvailableId(R.sessions)
         IN  AddPlayerNew(R, websocket,
                          IF player_id = None THEN MAX_PLAYERS ELSE player_id,
                          devOk)

\* SessionManager.add_player
AddPlayer(R, websocket, devOk) ==
    IF websocket \in DOMAIN R.w2p THEN AddPlayerKnown(R, websocket)
    ELSE LET player_id == GetAvailableId(R.sessions)
         IN  IF player_id = None
             THEN [reg |-> R, ret |-> None, events |-> <<>>]
             ELSE AddPlayerNew(R, websocket, player_id, devOk)

\* A faulty remove_player without the early return for an unknown connection.
RemovePlayerUnguarded(R, websocket) ==
    LET player_id == DictGet(R.w2p, websocket, None)
        R1 == [R EXCEPT !.w2p = DictDel(@, websocket),
                        !.sessions = DictDel(@, player_id)]
        cb == OnPlayerDisconnected(R1, player_id)
    IN  [reg |-> cb.reg, ret |-> player_id, events |-> cb.events]

\* SessionManager.remove_player
RemovePlayer(R, websocket) ==
    LET player_id == DictGet(R.w2p, websocket, None)
    IN  IF player_id = None
        THEN [reg |-> R, ret |-> None, events |-> <<>>]
        ELSE LET R1 == [R EXCEPT !.w2p = DictDel(@, websocket),
                                 !.sessions = DictDel(@, player_id)]
                 cb == OnPlayerDisconnected(R1, player_id)
             IN  [reg |-> cb.reg, ret |-> player_id, events |-> cb.events]

\* A faulty clear_all that forgets websocket_to_player.
ClearAllSessionsOnly(R) == [R EXCEPT !.sessions = EmptyDict]

\* SessionManager.clear_all
ClearAll(R) == [R EXCEPT !.sessions = EmptyDict, !.w2p = EmptyDict]

\* SessionManager.get_player_count
GetPlayerCount(R) == Cardinality(DOMAIN R.sessions)

\* SessionManager.get_session : <<>> for None.
GetSession(R, player_id) ==
    IF player_id \in DOMAIN R.sessions THEN <<R.sessions[player_id]>> ELSE <<>>

\* SessionManager.update_activity
UpdateActivity(R, player_id) ==
    IF GetSession(R, player_id) # <<>>
    THEN [R EXCEPT !.sessions[player_id].last_input_at = R.now]
    ELSE R

(***************************************************************************)
(* The state of the running program                                         *)
(***************************************************************************)
VARIABLES
    running,      \* ControllerServer._running
    server,       \* ControllerServer._server: "none", "open", "closing", "closed"
    status,       \* the last on_status_change notification, "none" before any
    stopPc,       \* where stop() is: "idle", or "waiting" in wait_closed()
    sessions,     \* SessionManager.sessions
    w2p,          \* SessionManager.websocket_to_player
    controllers,  \* ControllerManager.controllers
    shown,        \* what the GUI was last told per player (on_player_update)
    pc,           \* per connection: where its handle_client is ("idle": not running)
    conn,         \* per connection: "open" or "closed"
    pid,          \* per connection: handle_client's local player_id while it runs
    devFailures,  \* how many device creations have failed so far
    clock,        \* what datetime.now() returns
    mk,           \* mouse_keyboard._mouse_keyboard_controller: <<>> for None
    bc,           \* the call of broadcast() under way: <<>> for none
    guiOk,        \* whether the GUI behind on_player_update still accepts calls
    inbox,        \* per connection: queue, the frames received and not yet
                  \* fetched, and cur, the frame being processed (<<>>: none)
    last          \* the operation performed by the last step

vars == <<running, server, status, stopPc, sessions, w2p, controllers, shown,
          pc, conn, pid, devFailures, clock, mk, bc, guiOk, inbox, last>>

regVars == <<sessions, w2p, controllers, shown>>
srvVars == <<running, server, status, stopPc>>
hdlVars == <<pc, conn, pid, devFailures>>
extVars == <<bc, guiOk, inbox>>
envVars == <<clock, mk, extVars>>

\* The registry state as the operators above take it.
Reg == [sessions |-> sessions, w2p |-> w2p, controllers |-> controllers,
        shown |-> shown, now |-> clock, gui |-> guiOk]

SetReg(R) ==
    /\ sessions' = R.sessions
    /\ w2p' = R.w2p
    /\ controllers' = R.controllers
    /\ shown' = R.shown

\* What a step records about itself: the operation, the connection it was
\* for, the value it returned, how it came about and what it called.
Op(op, ws, ret, how, events) ==
    [op |-> op, ws |-> ws, ret |-> ret, how |-> how, events |-> events]

\* The queue of a connection that has received nothing.
NoFrames == [queue |-> <<>>, cur |-> <<>>]

\* The state after ControllerServer.__init__ (and main.py wiring the observers).
Init ==
    /\ running = FALSE
    /\ server = "none"
    /\ status = "none"
    /\ stopPc = "idle"
    /\ sessions = EmptyDict
    /\ w2p = EmptyDict
    /\ controllers = EmptyDict
    /\ shown = [p \in Players |-> FALSE]
    /\ pc = [c \in Conns |-> "idle"]
    /\ conn = [c \in Conns |-> "closed"]
    /\ pid = [c \in Conns |-> None]
    /\ devFailures = 0
    /\ clock = 0
    /\ mk = <<>>
    /\ bc = <<>>
    /\ guiOk = TRUE
    /\ inbox = [c \in Conns |-> NoFrames]
    /\ last = Op("init", 0, None, "", <<>>)

(***************************************************************************)
(* server.py : start and stop                                               *)
(***************************************************************************)
\* ControllerServer.start up to its wait_closed(): bindOk says whether
\* websockets.serve could bind the listening socket.  The port is the fixed
\* port the server was constructed with, so the bind fails while this
\* server's own listening socket is open.  start() and stop() are not called
\* while a stop() is under way.  A successful call records the state of the
\* server object it replaces.
Start(bindOk) ==
    /\ stopPc = "idle"
    /\ server = "open" => ~bindOk
    /\ running' = TRUE
    /\ IF bindOk
       THEN server' = "open" /\ status' = "running"
       ELSE server' = server /\ status' = "error"
    /\ last' = Op("start", 0, None, IF bindOk THEN "ok" ELSE "raised",
                  IF bindOk THEN <<Ev("serve", server)>> ELSE <<>>)
    /\ UNCHANGED <<stopPc, regVars, hdlVars, envVars>>

\* ControllerServer.is_running
IsRunning == running

\* start() called on a server object that has not been started before.
FirstStart(bindOk) == server = "none" /\ Start(bindOk)

\* The tail of stop(): disconnect_all, clear_all, the "stopped" notification,
\* recorded after the device calls that precede it.
StopTail ==
    LET da == DisconnectAll(controllers)
        R == ClearAll([Reg EXCEPT !.controllers = da.controllers])
    IN  /\ SetReg(R)
        /\ status' = "stopped"
        /\ last' = Op("stop", 0, None, "",
                      da.events \o <<Ev("status_stopped", 0)>>)

\* ControllerServer.stop up to its wait_closed(): the server stops accepting
\* and closes every open connection.  Without a server object the whole of
\* stop() runs at once.
StopBegin ==
    /\ stopPc = "idle"
    /\ running' = FALSE
    /\ IF server = "none"
       THEN /\ StopTail
            /\ UNCHANGED <<server, stopPc, hdlVars, envVars>>
       ELSE /\ server' = IF server = "open" THEN "closing" ELSE server
            /\ stopPc' = "waiting"
            /\ conn' = [c \in Conns |->
                          IF conn[c] = "open" THEN "closed" ELSE conn[c]]
            /\ last' = Op("stop_begin", 0, None, "", <<>>)
            /\ UNCHANGED <<status, regVars, pc, pid, devFailures, envVars>>

\* A faulty stop() that does not wait for the connection handlers.
StopFinishNoWait ==
    /\ stopPc = "waiting"
    /\ server' = "closed"
    /\ stopPc' = "idle"
    /\ StopTail
    /\ UNCHANGED <<running, hdlVars, envVars>>

\* wait_closed() returns once every connection handler has finished; stop()
\* then runs to its end.
StopFinish ==
    /\ stopPc = "waiting"
    /\ \A c \in Conns : pc[c] = "idle"
    /\ server' = "closed"
    /\ stopPc' = "idle"
    /\ StopTail
    /\ UNCHANGED <<running, hdlVars, envVars>>

(***************************************************************************)
(* server.py : handle_client                                                *)
(***************************************************************************)
\* websocket.send(frame) on connection c: the frame goes out if the
\* connection is open, and the call raises ConnectionClosed if it is not.
SendOk(c) == conn[c] = "open"

\* The record of a send call: the frame type and the connection it was made on.
Send(c, frame) ==
    <<Ev(IF SendOk(c) THEN "send_" \o frame ELSE "send_raised_" \o frame, c)>>

\* 1 if the device provider failed during the calls recorded, else 0.
DevFailed(events) ==
    IF \E i \in 1..Len(events) : events[i].kind = "device_create_failed"
    THEN 1 ELSE 0

\* A connection name is free when no handler runs for it and the registry
\* holds no reference to it.
FreeConn(c) == pc[c] = "idle" /\ c \notin DOMAIN w2p

\* The connections whose handler is between accept and the receive loop.
Handshaking == {c \in Conns : pc[c] \in {"reject_send", "reject_close", "welcome"}}

\* A new connection is accepted and its handler runs up to its first send:
\* add_player, then the branch on its result.
Accept(c, devOk) ==
    /\ server = "open"
    /\ FreeConn(c)
    /\ \A d \in 1..(c - 1) : ~FreeConn(d)
    /\ Cardinality(Handshaking) < MaxHandshaking
    /\ devOk \/ devFailures < MaxDevFailures
    /\ conn' = [conn EXCEPT ![c] = "open"]
    /\ LET r == AddPlayer(Reg, c, devOk)
       IN  /\ SetReg(r.reg)
           /\ pid' = [pid EXCEPT ![c] = r.ret]
           /\ pc' = [pc EXCEPT ![c] = IF r.ret = None THEN "reject_send"
                                      ELSE "welcome"]
           /\ last' = Op("add_player", c, r.ret, "", r.events)
           /\ devFailures' = devFailures + DevFailed(r.events)
    /\ inbox' = [inbox EXCEPT ![c] = NoFrames]
    /\ UNCHANGED <<srvVars, clock, mk, bc, guiOk>>

\* The peer (or the network, or the keepalive timeout) closes a connection
\* whose handler has not reached its receive loop yet.
PeerClose(c) ==
    /\ pc[c] \in {"reject_send", "reject_close", "welcome"}
    /\ conn[c] = "open"
    /\ conn' = [conn EXCEPT ![c] = "closed"]
    /\ last' = Op("peer_close", c, None, "", <<>>)
    /\ UNCHANGED <<srvVars, regVars, pc, pid, devFailures, envVars>>

\* Server full: send the error frame.  If the send raises, the handler ends
\* there.
RejectSend(c) ==
    /\ pc[c] = "reject_send"
    /\ pc' = [pc EXCEPT ![c] = IF SendOk(c) THEN "reject_close" ELSE "idle"]
    /\ last' = Op("reject_send", c, None, IF SendOk(c) THEN "ok" ELSE "raised",
                  Send(c, "error"))
    /\ UNCHANGED <<srvVars, regVars, conn, pid, devFailures, envVars>>

\* Server full: websocket.close(), return.
RejectClose(c) ==
    /\ pc[c] = "reject_close"
    /\ conn' = [conn EXCEPT ![c] = "closed"]
    /\ pc' = [pc EXCEPT ![c] = "idle"]
    /\ last' = Op("reject_close", c, None, "", <<>>)
    /\ UNCHANGED <<srvVars, regVars, pid, devFailures, envVars>>

\* The welcome frame.  It is sent outside the try block: if the send raises,
\* the handler ends without reaching the receive loop or its finally clause.
Welcome(c) ==
    /\ pc[c] = "welcome"
    /\ pc' = [pc EXCEPT ![c] = IF SendOk(c) THEN "loop" ELSE "idle"]
    /\ pid' = [pid EXCEPT ![c] = IF SendOk(c) THEN @ ELSE None]
    /\ last' = Op("welcome", c, pid[c], IF SendOk(c) THEN "ok" ELSE "raised",
                  Send(c, "connected"))
    /\ UNCHANGED <<srvVars, regVars, conn, devFailures, envVars>>

(***************************************************************************)
(* server.py : the receive loop and _process_message                        *)
(***************************************************************************)
\* An "input" message: the three dicts _process_message hands to update_state.
InputMsg(b, t, a) == [type |-> "input", buttons |-> b, triggers |-> t, axes |-> a]

\* All dicts with keys among K and values in V.
Dicts(K, V) == UNION {[D -> V] : D \in SUBSET K}

\* Messages without a payload.
PlainMsg(t) == [type |-> t]

\* The input messages of the snapshot-level specification: button "a" given,
\* pressed or released, or absent; a name outside BUTTON_MAP; trigger and axis
\* values absent, in range and out of range.
SnapshotMsgs ==
    {InputMsg(b, t, a) :
        b \in Dicts({"a"}, BOOLEAN) \cup {[n \in {"a", "turbo"} |-> TRUE]},
        t \in Dicts({"lt"}, {1, 3}),
        a \in Dicts({"left_x"}, {-10, 1})}

\* "mouse" and "keyboard" messages: every action of the two branches, one
\* action neither branch knows, and fields left to their defaults.
SinkMsgs ==
    {[type |-> "mouse", action |-> "move", dx |-> 1, dy |-> 0],
     [type |-> "mouse", action |-> "move"],
     [type |-> "mouse", action |-> "click", button |-> "right"],
     [type |-> "mouse", action |-> "press"],
     [type |-> "mouse", action |-> "release", button |-> "left"],
     [type |-> "mouse", action |-> "scroll", dy |-> 1],
     [type |-> "mouse", action |-> "drag"],
     [type |-> "keyboard", action |-> "type", text |-> "hi"],
     [type |-> "keyboard", action |-> "key", key |-> "ENTER"],
     [type |-> "keyboard", action |-> "combo", keys |-> <<"Ctrl", "c">>],
     [type |-> "keyboard", action |-> "combo"]}

\* A JSON object without a "type" field.
NoTypeMsg == [action |-> "move"]

\* The messages of the message-level specification.
LoopMsgs ==
    {PlainMsg("ping"), PlainMsg("disconnect"), PlainMsg("bogus"), NoTypeMsg}

\* The messages of the activity-level specification: every known type, an
\* unknown type and a missing type.
ActivityMsgs ==
    LoopMsgs \cup SinkMsgs
    \cup {InputMsg([n \in {"a"} |-> TRUE], EmptyDict, EmptyDict)}

\* The one message of the capacity-level specification.
CloseMsgs == {PlainMsg("disconnect")}

\* The text frame a client sends for the JSON object m.
TextFrame(m) == [json |-> "object", data |-> m]

\* Text frames that json.loads rejects, or decodes to something that is not
\* an object (a list).
MalformedFrames == {[json |-> "invalid"], [json |-> "array"]}

\* What a receive step records about itself: the frame, the message type
\* dispatched on and the calls made.
OpMsg(c, frame, how, events) ==
    [op |-> "message", ws |-> c, ret |-> None, how |-> how, events |-> events,
     msg |-> frame]

\* A faulty "input" branch that binds a device when the player has none.
ProcessInputBinding(c, msg) ==
    LET cc == CreateController(controllers, pid[c], TRUE).controllers
        u == UpdateState(cc[pid[c]],
                         DictGet(msg, "buttons", EmptyDict),
                         DictGet(msg, "triggers", EmptyDict),
                         DictGet(msg, "axes", EmptyDict))
    IN  /\ SetReg(UpdateActivity([Reg EXCEPT !.controllers =
                                     [cc EXCEPT ![pid[c]] = u]], pid[c]))
        /\ last' = OpMsg(c, TextFrame(msg), "input",
                         <<Ev("device_update", pid[c])>>)
        /\ UNCHANGED <<conn, mk>>

\* A faulty "input" branch that applies the snapshot to every controller.
ProcessInputShared(c, msg) ==
    LET upd(ctrl) == UpdateState(ctrl,
                                 DictGet(msg, "buttons", EmptyDict),
                                 DictGet(msg, "triggers", EmptyDict),
                                 DictGet(msg, "axes", EmptyDict))
        R == [Reg EXCEPT !.controllers =
                 [q \in DOMAIN controllers |->
                     IF UpdateRaises(controllers[q]) THEN controllers[q]
                     ELSE upd(controllers[q])]]
    IN  /\ SetReg(UpdateActivity(R, pid[c]))
        /\ last' = OpMsg(c, TextFrame(msg), "input",
                         <<Ev("device_update", pid[c])>>)
        /\ UNCHANGED <<conn, mk>>

\* _process_message, type "input"
ProcessInput(c, msg) ==
    LET controller == GetController(controllers, pid[c])
    IN  IF controller # <<>> /\ UpdateRaises(controller[1])
        THEN /\ last' = OpMsg(c, TextFrame(msg), "input",
                              <<Ev("raised", "input")>>)
             /\ UNCHANGED <<regVars, conn, mk>>
        ELSE IF controller # <<>>
        THEN LET u == UpdateState(controller[1],
                                  DictGet(msg, "buttons", EmptyDict),
                                  DictGet(msg, "triggers", EmptyDict),
                                  DictGet(msg, "axes", EmptyDict))
                 R == [Reg EXCEPT !.controllers[pid[c]] = u]
             IN  /\ SetReg(UpdateActivity(R, pid[c]))
                 /\ last' = OpMsg(c, TextFrame(msg), "input",
                                  IF IsConnected(controller[1])
                                  THEN <<Ev("device_update", pid[c])>> ELSE <<>>)
                 /\ UNCHANGED <<conn, mk>>
        ELSE /\ last' = OpMsg(c, TextFrame(msg), "input", <<>>)
             /\ UNCHANGED <<regVars, conn, mk>>

\* The "mouse" branch's call on the sink.
MouseAction(s, msg) ==
    LET action == DictGet(msg, "action", "")
    IN  CASE action = "move" ->
               MoveMouse(s, DictGet(msg, "dx", 0), DictGet(msg, "dy", 0))
          [] action = "click" -> Click(s, DictGet(msg, "button", "left"))
          [] action = "press" -> PressMouse(s, DictGet(msg, "button", "left"))
          [] action = "release" -> ReleaseMouse(s, DictGet(msg, "button", "left"))
          [] action = "scroll" ->
               Scroll(s, DictGet(msg, "dx", 0), DictGet(msg, "dy", 0))
          [] OTHER -> [mk |-> s, events |-> <<>>]

\* The "keyboard" branch's call on the sink.
KeyboardAction(s, msg) ==
    LET action == DictGet(msg, "action", "")
    IN  CASE action = "type" -> TypeText(s, DictGet(msg, "text", ""))
          [] action = "key" -> PressKey(s, DictGet(msg, "key", ""))
          [] action = "combo" ->
               IF DictGet(msg, "keys", <<>>) # <<>>
               THEN KeyCombination(s, msg.keys)
               ELSE [mk |-> s, events |-> <<>>]
          [] OTHER -> [mk |-> s, events |-> <<>>]

\* What can become of a branch that uses the sink: it runs to its end, the
\* creation of the sink raises, or a call on the sink raises.
SinkOutcomes == {"ok", "create_raised", "call_raised"}

\* _process_message, types "mouse" and "keyboard": the sink is fetched, the
\* action r is performed on it, then update_activity.  An exception skips the
\* rest of the branch and is caught at the end of _process_message.
Forward(c, msg, r, outcome) ==
    /\ outcome = "create_raised" => mk = <<>>
    /\ mk' = IF outcome = "ok" THEN <<r.mk>>
             ELSE IF outcome = "call_raised" THEN GetMouseKeyboardController(mk)
             ELSE mk
    /\ IF outcome = "ok"
       THEN /\ SetReg(UpdateActivity(Reg, pid[c]))
            /\ last' = OpMsg(c, TextFrame(msg), msg.type, r.events)
       ELSE /\ last' = OpMsg(c, TextFrame(msg), msg.type,
                             <<Ev("raised", msg.type)>>)
            /\ UNCHANGED regVars
    /\ UNCHANGED conn

\* _process_message, type "mouse"
ProcessMouse(c, msg) ==
    \E outcome \in SinkOutcomes :
       Forward(c, msg, MouseAction(GetMouseKeyboardController(mk)[1], msg),
               outcome)

\* _process_message, type "keyboard"
ProcessKeyboard(c, msg) ==
    \E outcome \in SinkOutcomes :
       Forward(c, msg, KeyboardAction(GetMouseKeyboardController(mk)[1], msg),
               outcome)

\* A faulty "ping" branch that answers on the connection of the first player.
ProcessPingFirstPlayer(c, msg) ==
    LET first == CHOOSE p \in DOMAIN sessions : \A q \in DOMAIN sessions : p <= q
    IN  /\ last' = OpMsg(c, TextFrame(msg), "ping",
                         IF DOMAIN sessions # {}
                         THEN Send(sessions[first].websocket, "pong") ELSE <<>>)
        /\ UNCHANGED <<regVars, conn, mk>>

\* _process_message, type "ping": the pong goes to the websocket of the
\* session registered under the handler's player id; a failing send is caught.
ProcessPing(c, msg) ==
    LET session == GetSession(Reg, pid[c])
    IN  /\ last' = OpMsg(c, TextFrame(msg), "ping",
                         IF session # <<>>
                         THEN Send(session[1].websocket, "pong") ELSE <<>>)
        /\ UNCHANGED <<regVars, conn, mk>>

\* A faulty "disconnect" branch that closes nothing.
ProcessDisconnectIgnored(c, msg) ==
    /\ last' = OpMsg(c, TextFrame(msg), "disconnect", <<>>)
    /\ UNCHANGED <<regVars, conn, mk>>

\* _process_message, type "disconnect": the server closes the websocket of
\* the session registered under the handler's player id.
ProcessDisconnect(c, msg) ==
    LET session == GetSession(Reg, pid[c])
    IN  /\ IF session # <<>>
           THEN conn' = [conn EXCEPT ![session[1].websocket] = "closed"]
           ELSE conn' = conn
        /\ last' = OpMsg(c, TextFrame(msg), "disconnect", <<>>)
        /\ UNCHANGED <<regVars, mk>>

\* A faulty fall-through that counts the message as activity.
ProcessOtherTouching(c, msg) ==
    /\ SetReg(UpdateActivity(Reg, pid[c]))
    /\ last' = OpMsg(c, TextFrame(msg), DictGet(msg, "type", ""), <<>>)
    /\ UNCHANGED <<conn, mk>>

\* _process_message, any other type: no branch matches.
ProcessOther(c, msg) ==
    /\ last' = OpMsg(c, TextFrame(msg), DictGet(msg, "type", ""), <<>>)
    /\ UNCHANGED <<regVars, conn, mk>>

\* A faulty handling of an undecodable frame that closes the connection.
ProcessMalformedClosing(c, frame) ==
    /\ conn' = [conn EXCEPT ![c] = "closed"]
    /\ last' = OpMsg(c, frame, "", <<Ev("raised", frame.json)>>)
    /\ UNCHANGED <<regVars, mk>>

\* _process_message for a frame that does not decode to an object:
\* json.loads raises JSONDecodeError, or data.get raises AttributeError; both
\* are caught and logged.
ProcessMalformed(c, frame) ==
    /\ last' = OpMsg(c, frame, "", <<Ev("raised", frame.json)>>)
    /\ UNCHANGED <<regVars, conn, mk>>

\* _process_message
ProcessMessage(c, frame) ==
    IF frame.json # "object" THEN ProcessMalformed(c, frame)
    ELSE LET msg_type == DictGet(frame.data, "type", "")
         IN  CASE msg_type = "input" -> ProcessInput(c, frame.data)
               [] msg_type = "mouse" -> ProcessMouse(c, frame.data)
               [] msg_type = "keyboard" -> ProcessKeyboard(c, frame.data)
               [] msg_type = "ping" -> ProcessPing(c, frame.data)
               [] msg_type = "disconnect" -> ProcessDisconnect(c, frame.data)
               [] OTHER -> ProcessOther(c, frame.data)

\* One iteration of the receive loop: a frame arrives on the open connection
\* and _process_message runs to its end.
Receive(c, frame) ==
    /\ pc[c] = "loop"
    /\ conn[c] = "open"
    /\ ProcessMessage(c, frame)
    /\ UNCHANGED <<srvVars, pc, pid, devFailures, clock, extVars>>

\* The peer of connection c sends a text frame; the websockets library
\* queues it until the handler asks for it.
Arrive(c, frame) ==
    /\ pc[c] # "idle"
    /\ conn[c] = "open"
    /\ Len(inbox[c].queue) < MaxInbox
    /\ inbox' = [inbox EXCEPT ![c].queue = Append(@, frame)]
    /\ last' = OpMsg(c, frame, "arrived", <<>>)
    /\ UNCHANGED <<srvVars, regVars, hdlVars, clock, mk, bc, guiOk>>

\* A faulty iterator that hands out the frame received last.
DequeueNewest(q) ==
    [msg |-> q[Len(q)], rest |-> SubSeq(q, 1, Len(q) - 1)]

\* "async for message in websocket": the iterator hands out the frame that
\* has waited longest.
Dequeue(q) == [msg |-> Head(q), rest |-> Tail(q)]

\* The receive loop takes the next frame and calls _process_message.
Fetch(c) ==
    /\ pc[c] = "loop"
    /\ inbox[c].queue # <<>>
    /\ LET d == Dequeue(inbox[c].queue)
       IN  /\ inbox' = [inbox EXCEPT ![c] = [queue |-> d.rest, cur |-> <<d.msg>>]]
           /\ last' = OpMsg(c, d.msg, "fetched", <<>>)
    /\ pc' = [pc EXCEPT ![c] = "processing"]
    /\ UNCHANGED <<srvVars, regVars, conn, pid, devFailures, clock, mk, bc,
                   guiOk>>

\* _process_message runs to its end, its awaited send or close included,
\* and the handler is back at the head of the receive loop.
Complete(c) ==
    /\ pc[c] = "processing"
    /\ ProcessMessage(c, inbox[c].cur[1])
    /\ inbox' = [inbox EXCEPT ![c].cur = <<>>]
    /\ pc' = [pc EXCEPT ![c] = "loop"]
    /\ UNCHANGED <<srvVars, pid, devFailures, clock, bc, guiOk>>

\* datetime.now() advances.
Tick ==
    /\ clock < MaxClock
    /\ clock' = clock + 1
    /\ last' = Op("tick", 0, None, "", <<>>)
    /\ UNCHANGED <<srvVars, regVars, hdlVars, mk, extVars>>

\* The driver of player p's device fails: from now on reset() and update()
\* on the device raise.
DeviceFault(p) ==
    /\ p \in DOMAIN controllers
    /\ IsConnected(controllers[p])
    /\ ~controllers[p].gamepad[1].fault
    /\ controllers' = [controllers EXCEPT ![p].gamepad[1].fault = TRUE]
    /\ last' = Op("device_fault", 0, p, "", <<>>)
    /\ UNCHANGED <<srvVars, sessions, w2p, shown, hdlVars, envVars>>

\* The ways the receive loop ends: the iterator finishes after a normal
\* close, ConnectionClosed is raised, another exception is raised, or the
\* keepalive timeout closes the connection.
Ways == {"graceful", "closed", "exception", "timeout"}

\* A handler whose cleanup sits in the ConnectionClosed paths only.
FinallyOnlyOnClose(R, c, way) ==
    IF way \in {"graceful", "closed"} THEN RemovePlayer(R, c)
    ELSE [reg |-> R, ret |-> None, events |-> <<>>]

\* The finally clause of handle_client: it runs for every way the loop ends.
Finally(R, c, way) == RemovePlayer(R, c)

\* The receive loop ends and the handler returns: the except clauses only
\* log, the finally clause runs, and the connection is closed by then.
LoopEnd(c, way) ==
    /\ pc[c] = "loop"
    /\ LET r == Finally(Reg, c, way)
       IN  /\ SetReg(r.reg)
           /\ last' = Op("handler_end", c, r.ret, way, r.events)
    /\ conn' = [conn EXCEPT ![c] = "closed"]
    /\ pc' = [pc EXCEPT ![c] = "idle"]
    /\ pid' = [pid EXCEPT ![c] = None]
    /\ UNCHANGED <<srvVars, devFailures, envVars>>

(***************************************************************************)
(* session_manager.py : broadcast                                           *)
(*                                                                         *)
(* broadcast iterates over self.sessions.items() and awaits a send in the   *)
(* body of the loop.  While a send is suspended other handlers run and may  *)
(* call add_player and remove_player.  The dict iterator remembers the size *)
(* of the dict when it was created: each step first compares it with the    *)
(* current size and raises RuntimeError if they differ.  If the keys have   *)
(* changed and the size is the same again, what the iterator does depends   *)
(* on the layout of the dict: it may raise, yield an entry or stop.  The    *)
(* model does not keep the insertion order of the dict: entries are yielded *)
(* in any order.                                                            *)
(***************************************************************************)
\* "if exclude_player and player_id == exclude_player"
Excluded(exclude_player, player_id) ==
    exclude_player # None /\ player_id = exclude_player

\* The frame of a broadcast() call that has just created its iterator.
NewBroadcast(R, exclude_player) ==
    [exclude |-> exclude_player,
     size |-> Cardinality(DOMAIN R.sessions),  \* len of the dict at creation
     visited |-> {},      \* player ids the iterator has yielded
     whole |-> DOMAIN R.sessions,  \* sessions live since the call began
     cur |-> None,        \* player id of the session being sent to
     ws |-> None,         \* its websocket
     dirty |-> FALSE,     \* the registry has changed since the call began
     events |-> <<>>,     \* the send calls that have returned
     done |-> FALSE,      \* the call has returned or raised
     raised |-> FALSE]    \* an exception left the call

\* The call ends, with an exception leaving it or not.
BroadcastEnd(b, raised) == [b EXCEPT !.done = TRUE, !.raised = raised]

\* The for statement asks the iterator for the next entry and the body runs
\* up to its await: all the frames the call can be in at that point.
RECURSIVE BroadcastAdvance(_, _)
BroadcastAdvance(b, R) ==
    IF Cardinality(DOMAIN R.sessions) # b.size
    THEN {BroadcastEnd(b, TRUE)}
    ELSE LET rest == DOMAIN R.sessions \ b.visited
             yields ==
                UNION {IF Excluded(b.exclude, p)
                       THEN BroadcastAdvance([b EXCEPT !.visited = @ \cup {p}], R)
                       ELSE {[b EXCEPT !.visited = @ \cup {p}, !.cur = p,
                                       !.ws = R.sessions[p].websocket]}
                       : p \in rest}
         IN  IF ~b.dirty
             THEN IF rest = {} THEN {BroadcastEnd(b, FALSE)} ELSE yields
             ELSE yields \cup {BroadcastEnd(b, TRUE), BroadcastEnd(b, FALSE)}

\* A faulty loop body that lets a failing send end the call.
AfterSendAborting(b, sent) ==
    IF sent
    THEN [b EXCEPT !.events = @ \o <<Ev("send_message", b.ws)>>,
                   !.cur = None, !.ws = None]
    ELSE [b EXCEPT !.events = @ \o <<Ev("send_raised_message", b.ws)>>,
                   !.cur = None, !.ws = None, !.done = TRUE, !.raised = TRUE]

\* The awaited send returns or raises; what it raises is caught and logged.
AfterSend(b, sent) ==
    [b EXCEPT !.events = @ \o <<Ev(IF sent THEN "send_message"
                                   ELSE "send_raised_message", b.ws)>>,
              !.cur = None, !.ws = None]

\* What a step of broadcast() records about itself.
OpBroadcast(op, b) ==
    [op |-> op, ws |-> b.ws, ret |-> b.exclude,
     how |-> IF b.raised THEN "raised" ELSE "ok", events |-> b.events,
     dirty |-> b.dirty, whole |-> b.whole]

\* The call moves on to the frame b: suspended in the next send, or ended.
BroadcastMoves(b) ==
    IF b.done
    THEN bc' = <<>> /\ last' = OpBroadcast("broadcast", b)
    ELSE bc' = <<b>> /\ last' = OpBroadcast("broadcast_send", b)

\* broadcast(message, exclude_player) is called and runs up to its first
\* await.
BroadcastBegin(exclude_player) ==
    /\ bc = <<>>
    /\ \E b \in BroadcastAdvance(NewBroadcast(Reg, exclude_player), Reg) :
          BroadcastMoves(b)
    /\ UNCHANGED <<srvVars, regVars, hdlVars, clock, mk, guiOk, inbox>>

\* The send broadcast() is suspended in completes, and the loop goes on.
BroadcastResume ==
    /\ bc # <<>>
    /\ LET b == AfterSend(bc[1], SendOk(bc[1].ws))
       IN  IF b.done THEN BroadcastMoves(b)
           ELSE \E b2 \in BroadcastAdvance(b, Reg) : BroadcastMoves(b2)
    /\ UNCHANGED <<srvVars, regVars, hdlVars, clock, mk, guiOk, inbox>>

\* What a change of the registry to R2 means for a broadcast() under way.
Disturbed(R2) ==
    IF bc = <<>> \/ R2.sessions = sessions THEN bc
    ELSE <<[bc[1] EXCEPT
              !.dirty = TRUE,
              !.whole = {p \in @ : /\ p \in DOMAIN R2.sessions
                                    /\ R2.sessions[p] = sessions[p]}]>>

\* Another task calls add_player for a new connection c.  Connection names
\* are interchangeable: a new connection takes the lowest name not in use.
TaskAddsPlayer(c) ==
    /\ c \notin DOMAIN w2p
    /\ \A d \in 1..(c - 1) : d \in DOMAIN w2p
    /\ conn[c] = "closed"
    /\ conn' = [conn EXCEPT ![c] = "open"]
    /\ LET r == AddPlayer(Reg, c, TRUE)
       IN  /\ SetReg(r.reg)
           /\ bc' = Disturbed(r.reg)
           /\ last' = Op("add_player", c, r.ret, "task", r.events)
    /\ UNCHANGED <<srvVars, pc, pid, devFailures, clock, mk, guiOk, inbox>>

\* The peer of a registered connection goes away: sends on it raise from
\* now on.
TaskPeerGone(c) ==
    /\ c \in DOMAIN w2p
    /\ conn[c] = "open"
    /\ conn' = [conn EXCEPT ![c] = "closed"]
    /\ last' = Op("peer_close", c, None, "task", <<>>)
    /\ UNCHANGED <<srvVars, regVars, pc, pid, devFailures, envVars>>

\* Another task calls remove_player for a registered connection c.
TaskRemovesPlayer(c) ==
    /\ c \in DOMAIN w2p
    /\ conn' = [conn EXCEPT ![c] = "closed"]
    /\ LET r == RemovePlayer(Reg, c)
       IN  /\ SetReg(r.reg)
           /\ bc' = Disturbed(r.reg)
           /\ last' = Op("remove_player", c, r.ret, "task", r.events)
    /\ UNCHANGED <<srvVars, pc, pid, devFailures, clock, mk, guiOk, inbox>>

(***************************************************************************)
(* Specifications                                                           *)
(***************************************************************************)
\* The steps of a server that is started once, with connections 1..K,
\* messages drawn from msgs and receive loops ending in the ways given.
ServerNext(K, msgs, ways) ==
    \/ \E b \in BOOLEAN : FirstStart(b)
    \/ StopBegin
    \/ StopFinish
    \/ \E c \in 1..K, devOk \in BOOLEAN : Accept(c, devOk)
    \/ \E c \in 1..K : PeerClose(c)
    \/ \E c \in 1..K : Welcome(c)
    \/ \E c \in 1..K, m \in msgs : Receive(c, TextFrame(m))
    \/ \E c \in 1..K, w \in ways : LoopEnd(c, w)

\* Capacity level: enough connections to fill the registry and be turned
\* away.  How a receive loop ends is left to the message-level specification.
Next ==
    \/ ServerNext(NumConns, CloseMsgs, {"closed"})
    \/ \E c \in Conns : RejectSend(c)
    \/ \E c \in Conns : RejectClose(c)

Spec == Init /\ [][Next]_vars

\* Lifecycle level: start() and stop() called again and again, in any
\* order, on a server with as many connections as the registry has slots.
NextLife ==
    \/ ServerNext(MAX_PLAYERS, CloseMsgs, {"closed"})
    \/ \E b \in BOOLEAN : Start(b)

SpecLife == Init /\ [][NextLife]_vars

\* The receive loop of a closed connection ends: the iterator of the
\* websocket stops once the connection is closed.
LoopEndClosed(c) == conn[c] = "closed" /\ \E w \in Ways : LoopEnd(c, w)

\* Message level: few connections (the registry never fills), messages
\* that use neither a device nor the sink, malformed frames, and every way
\* a receive loop can end.
NextLoop ==
    \/ ServerNext(LoopConns, LoopMsgs, Ways)
    \/ \E c \in 1..LoopConns, f \in MalformedFrames : Receive(c, f)

SpecLoop == Init /\ [][NextLoop]_vars

\* The message level with handlers that are scheduled: a handler whose
\* connection is closed gets to leave its receive loop.
SpecLoopFair ==
    SpecLoop /\ \A c \in 1..LoopConns : WF_vars(LoopEndClosed(c))

\* Snapshot level: input messages with varied snapshots.
NextInput == ServerNext(InputConns, SnapshotMsgs, {"closed"})

SpecInput == Init /\ [][NextInput]_vars

\* The messages of the device-level specification.
DeviceMsgs ==
    {InputMsg([n \in {"a"} |-> TRUE], EmptyDict, EmptyDict),
     PlainMsg("disconnect")}

\* Device level: devices whose driver may fail while they are bound.
NextDevice ==
    \/ ServerNext(DeviceConns, DeviceMsgs, {"closed"})
    \/ \E p \in Players : DeviceFault(p)

SpecDevice == Init /\ [][NextDevice]_vars

\* Activity level: messages of every type and malformed frames, the mouse
\* and keyboard sink, and a clock that advances between the steps.
NextActivity ==
    \/ ServerNext(ActivityConns, ActivityMsgs, {"closed"})
    \/ \E c \in 1..ActivityConns, f \in MalformedFrames : Receive(c, f)
    \/ Tick

SpecActivity == Init /\ [][NextActivity]_vars

(***************************************************************************)
(* The registry driven directly through SessionManager's methods, with the  *)
(* observers wired as ControllerServer.__init__ wires them: any call, with  *)
(* any connection, in any order.                                            *)
(***************************************************************************)
ApiAddPlayer(c, devOk) ==
    /\ devOk \/ devFailures < MaxDevFailures
    /\ LET r == AddPlayer(Reg, c, devOk)
       IN  /\ SetReg(r.reg)
           /\ last' = Op("add_player", c, r.ret, "api", r.events)
           /\ devFailures' = devFailures + DevFailed(r.events)
    /\ UNCHANGED <<srvVars, pc, conn, pid, envVars>>

ApiRemovePlayer(c) ==
    /\ LET r == RemovePlayer(Reg, c)
       IN  /\ SetReg(r.reg)
           /\ last' = Op("remove_player", c, r.ret, "api", r.events)
    /\ UNCHANGED <<srvVars, hdlVars, envVars>>

ApiClearAll ==
    /\ SetReg(ClearAll(Reg))
    /\ last' = Op("clear_all", 0, None, "api", <<>>)
    /\ UNCHANGED <<srvVars, hdlVars, envVars>>

NextApi ==
    \/ \E c \in Conns, devOk \in BOOLEAN : ApiAddPlayer(c, devOk)
    \/ \E c \in Conns : ApiRemovePlayer(c)
    \/ ApiClearAll

SpecApi == Init /\ [][NextApi]_vars

\* The key strings of the key-level specification: modifiers in two
\* spellings, a character, and a named key that is not a modifier.
ComboAlphabet == {"Ctrl", "shift", "alt", "c", "enter"}

\* All key lists of 1 to MaxKeys keys.
ComboInputs == UNION {[1..n -> ComboAlphabet] : n \in 1..MaxKeys}

\* key_combination(keys) is called on the sink.
CallKeyCombination(keys) ==
    /\ LET r == KeyCombination(GetMouseKeyboardController(mk)[1], keys)
       IN  /\ mk' = <<r.mk>>
           /\ last' = [op |-> "key_combination", ws |-> 0, ret |-> None,
                       how |-> "", events |-> r.events, keys |-> keys]
    /\ UNCHANGED <<srvVars, regVars, hdlVars, clock, extVars>>

\* Key level: key_combination applied to every key list.
NextKeys == \E keys \in ComboInputs : CallKeyCombination(keys)

SpecKeys == Init /\ [][NextKeys]_vars

\* The messages of the isolation-level specification.
IsoMsgs == {InputMsg([n \in {"a"} |-> TRUE], EmptyDict, EmptyDict)}

\* Isolation level: several players whose connections fail in every way:
\* malformed frames, devices that raise, receive loops that end in an
\* exception or a timeout, peers that go away during the handshake.
NextIsolation ==
    \/ ServerNext(IsoConns, IsoMsgs, Ways)
    \/ \E c \in 1..IsoConns, f \in MalformedFrames : Receive(c, f)
    \/ \E p \in Players : DeviceFault(p)

SpecIsolation == Init /\ [][NextIsolation]_vars

\* The messages of the queue-level specification.
FifoMsgs == {PlainMsg("ping"), PlainMsg("bogus"), PlainMsg("disconnect")}

\* Queue level: frames arrive on a connection while its handler is busy,
\* and the handler takes them from the queue one at a time.
NextFifo ==
    \/ FirstStart(TRUE)
    \/ \E c \in 1..FifoConns : Accept(c, TRUE)
    \/ \E c \in 1..FifoConns : PeerClose(c)
    \/ \E c \in 1..FifoConns : Welcome(c)
    \/ \E c \in 1..FifoConns, m \in FifoMsgs : Arrive(c, TextFrame(m))
    \/ \E c \in 1..FifoConns : Fetch(c)
    \/ \E c \in 1..FifoConns : Complete(c)
    \/ \E c \in 1..FifoConns, w \in Ways : LoopEnd(c, w)

SpecFifo == Init /\ [][NextFifo]_vars

\* The GUI goes away (its Tk root is destroyed): from now on a call of
\* on_player_update raises.
GuiGone ==
    /\ guiOk
    /\ guiOk' = FALSE
    /\ last' = Op("gui_gone", 0, None, "", <<>>)
    /\ UNCHANGED <<srvVars, regVars, hdlVars, clock, mk, bc, inbox>>

\* Observer level: the registry driven directly, with observers that start
\* to raise at some point.
NextObserver ==
    \/ \E c \in 1..ObsConns, devOk \in BOOLEAN : ApiAddPlayer(c, devOk)
    \/ \E c \in 1..ObsConns : ApiRemovePlayer(c)
    \/ GuiGone

SpecObserver == Init /\ [][NextObserver]_vars

\* The exclude_player arguments of the broadcast-level specification: none,
\* a player that can be registered and one that never is.
ExcludeChoices == {None, 1, MAX_PLAYERS}

\* Broadcast level: the registry driven by tasks that add and remove
\* players, peers that go away, and calls of broadcast() that may be
\* suspended in each send.
NextBroadcast ==
    \/ \E c \in 1..BcastConns : TaskAddsPlayer(c)
    \/ \E c \in 1..BcastConns : TaskPeerGone(c)
    \/ \E c \in 1..BcastConns : TaskRemovesPlayer(c)
    \/ \E x \in ExcludeChoices : BroadcastBegin(x)
    \/ BroadcastResume

SpecBroadcast == Init /\ [][NextBroadcast]_vars

(***************************************************************************)
(* Properties                                                               *)
(***************************************************************************)
\* The connections whose handler holds a player id: past add_player, not
\* yet through its cleanup.
LiveHandlers == {c \in Conns : pc[c] \in {"welcome", "loop"}}

\* The sessions of the registry that refer to connection c.
SessionsOf(c) == {p \in DOMAIN sessions : sessions[p].websocket = c}

\* A handler is accepted in this step.
Accepted(c) == pc[c] = "idle" /\ pc'[c] # "idle"

C1_Inv ==
    /\ Cardinality(LiveHandlers) <= MAX_PLAYERS
    /\ \A c \in LiveHandlers :
          /\ pid[c] \in Players
          /\ c \in DOMAIN w2p /\ w2p[c] = pid[c]
          /\ SessionsOf(c) = {pid[c]}
    /\ \A c, d \in LiveHandlers : c # d => pid[c] # pid[d]
    /\ \A c \in Conns :
          pc[c] \in {"reject_send", "reject_close"} =>
             pid[c] = None /\ c \notin DOMAIN w2p /\ SessionsOf(c) = {}
    /\ (last.op = "add_player" /\ last.ret = None) =>
          /\ Cardinality(DOMAIN sessions) = MAX_PLAYERS
          /\ last.events = <<>>
          /\ pc[last.ws] = "reject_send"
    /\ last.op = "reject_send" =>
          /\ last.how = "ok" =>
                last.events = <<Ev("send_error", last.ws)>>
                /\ pc[last.ws] = "reject_close"
          /\ last.how = "raised" =>
                last.events = <<Ev("send_raised_error", last.ws)>>
                /\ pc[last.ws] = "idle" /\ conn[last.ws] = "closed"
    /\ last.op = "reject_close" =>
          conn[last.ws] = "closed" /\ pc[last.ws] = "idle"
          /\ last.ws \notin DOMAIN w2p /\ SessionsOf(last.ws) = {}

C1_Act ==
    \A c \in Conns :
       /\ (Accepted(c) /\ Cardinality(DOMAIN sessions) = MAX_PLAYERS) =>
             pc'[c] = "reject_send" /\ UNCHANGED <<sessions, w2p, controllers>>
       /\ (Accepted(c) /\ Cardinality(DOMAIN sessions) < MAX_PLAYERS) =>
             pc'[c] = "welcome" /\ pid'[c] \in Players \ DOMAIN sessions
       /\ (pc[c] \in {"reject_send", "reject_close"} /\ pc'[c] # pc[c]) =>
             UNCHANGED <<sessions, w2p, controllers>>

\* C1: the handlers that hold a player id hold distinct ids in 1..4, each
\* registered for its own connection; a connection accepted while 4 sessions
\* are live gets no id, its handler's only send is the 'error' frame (which
\* raises only if the peer is already gone), the connection ends closed, and
\* neither the registry nor the controller map changes on its account.
C1_DistinctIdsAndRejectWhenFull == []C1_Inv /\ [][C1_Act]_vars

\* C1 witness: four handlers hold ids 1..4 and a fifth connection has just
\* been sent the error frame and closed.
C1_Witness ==
    /\ last.op = "reject_close"
    /\ {pid[c] : c \in LiveHandlers} = Players
    /\ Cardinality(DOMAIN sessions) = MAX_PLAYERS

C2_Inv ==
    last.op = "handler_end" =>
       /\ last.how \in Ways
       /\ last.ret \in Players
       /\ last.ws \notin DOMAIN w2p
       /\ SessionsOf(last.ws) = {}
       /\ last.ret \notin DOMAIN sessions
       /\ last.ret \notin DOMAIN controllers
       /\ pc[last.ws] = "idle"

C2_Act ==
    \A c \in Conns :
       (pc[c] = "loop" /\ pc'[c] # "loop") =>
          /\ last'.op = "handler_end" /\ last'.ret = pid[c]
          /\ sessions' = [p \in DOMAIN sessions \ {pid[c]} |-> sessions[p]]
          /\ w2p' = [d \in DOMAIN w2p \ {c} |-> w2p[d]]
          /\ controllers' =
                [p \in DOMAIN controllers \ {pid[c]} |-> controllers[p]]
          /\ shown' = [shown EXCEPT ![pid[c]] = FALSE]

\* C2: whichever way a receive loop ends, the handler's remove_player finds
\* the connection's session, and afterwards the registry holds no session for
\* the connection and the controller map no controller for its player id; the
\* registry after the step is fixed by the registry before it, not by the way.
C2_CleanupAlwaysRuns == []C2_Inv /\ [][C2_Act]_vars

\* C2 witness: a receive loop ended by an exception other than
\* ConnectionClosed, the player's device was destroyed, another player stays.
C2_Witness ==
    /\ last.op = "handler_end"
    /\ last.how = "exception"
    /\ \E i \in 1..Len(last.events) : last.events[i] = Ev("device_destroy", last.ret)
    /\ DOMAIN sessions # {}

\* C3: the player ids with a session are the player ids with a controller.
C3_SessionIffBinding == DOMAIN sessions = DOMAIN controllers

\* C4: when the device cannot be created, the client gets no 'connected'
\* frame, its handler never serves messages, the session is gone by the time
\* the handler would send the welcome, and the player is not shown connected.
C4_BindFailureRollsBack ==
    /\ \A c \in Conns : pc[c] = "loop" => pid[c] \in DOMAIN controllers
    /\ (last.op = "welcome" /\ last.how = "ok") => last.ret \in DOMAIN controllers
    /\ \A p \in Players :
          (shown[p] /\ p \in DOMAIN sessions /\ pc[sessions[p].websocket] = "loop")
             => p \in DOMAIN controllers

\* A device_destroy call.
IsDestroy(e) == e.kind = "device_destroy"

\* C5: the end of player p's handler removes exactly p's session (the count
\* drops by one, only p's entries go), the next add_player returns p when no
\* lower id is free, and exactly one device, p's, is destroyed.
C5_DisconnectFreesOneSlot ==
    [][\A c \in Conns :
         (pc[c] = "loop" /\ pc'[c] = "idle") =>
            LET p == pid[c]
                R2 == [sessions |-> sessions', w2p |-> w2p',
                       controllers |-> controllers', shown |-> shown',
                       now |-> clock', gui |-> guiOk']
            IN  /\ Cardinality(DOMAIN sessions') = Cardinality(DOMAIN sessions) - 1
                /\ sessions' = [q \in DOMAIN sessions \ {p} |-> sessions[q]]
                /\ w2p' = [d \in DOMAIN w2p \ {c} |-> w2p[d]]
                /\ (\A q \in 1..(p - 1) : q \in DOMAIN sessions')
                      => AddPlayer(R2, c, TRUE).ret = p
                /\ SelectSeq(last'.events, IsDestroy) = <<Ev("device_destroy", p)>>
      ]_vars

\* The lowest id of 1..MAX_PLAYERS without a session, None if there is none.
LowestUnused(sess) ==
    IF Players \subseteq DOMAIN sess THEN None
    ELSE CHOOSE i \in Players \ DOMAIN sess :
            \A j \in Players \ DOMAIN sess : i <= j

\* C6: add_player for a connection that is not registered returns the lowest
\* id in 1..MAX_PLAYERS that has no session, registers the connection under
\* it, and returns None exactly when all of 1..4 have a session.
C6_LowestFreeId ==
    [][\A c \in Conns :
         (last'.op = "add_player" /\ last'.ws = c /\ c \notin DOMAIN w2p) =>
            /\ last'.ret = LowestUnused(sessions)
            /\ (last'.ret = None) <=> (DOMAIN sessions = Players)
            /\ last'.ret # None =>
                  c \in DOMAIN w2p' /\ w2p'[c] = last'.ret
                  /\ sessions'[last'.ret].websocket = c
      ]_vars

\* C6 witness: with ids 1, 3 and 4 in use a new connection was given id 2.
C6_Witness ==
    /\ last.op = "add_player"
    /\ last.ret = 2
    /\ last.events # <<>>
    /\ DOMAIN sessions = Players

\* C7: add_player for a connection that is already registered returns its
\* player id, changes neither map, creates no controller and notifies nobody.
C7_AddPlayerIdempotent ==
    [][\A c \in Conns :
         (last'.op = "add_player" /\ last'.ws = c /\ c \in DOMAIN w2p) =>
            /\ last'.ret = w2p[c]
            /\ last'.events = <<>>
            /\ UNCHANGED <<sessions, w2p, controllers, shown>>
      ]_vars

\* C7 witness: a registered connection was added again while the registry
\* was full, and got its id back.
C7_Witness ==
    /\ last.op = "add_player"
    /\ last.ret \in Players
    /\ last.events = <<>>
    /\ Cardinality(DOMAIN sessions) = MAX_PLAYERS

\* C8: remove_player for a connection that is not registered returns None,
\* changes neither map nor the controller map, and notifies nobody.
C8_RemoveUnknownIsNoOp ==
    [][\A c \in Conns :
         (last'.op = "remove_player" /\ last'.ws = c /\ c \notin DOMAIN w2p) =>
            /\ last'.ret = None
            /\ last'.events = <<>>
            /\ UNCHANGED <<sessions, w2p, controllers, shown>>
      ]_vars

\* C8 witness: remove_player was called for an unregistered connection while
\* other players were connected.
C8_Witness ==
    /\ last.op = "remove_player"
    /\ last.ret = None
    /\ DOMAIN sessions # {}
    /\ DOMAIN controllers # {}

\* C9: at most MAX_PLAYERS sessions, with ids in 1..MAX_PLAYERS, and the two
\* maps are inverse to each other.
C9_RegistryBijection ==
    /\ DOMAIN sessions \subseteq Players
    /\ Cardinality(DOMAIN sessions) <= MAX_PLAYERS
    /\ Cardinality(DOMAIN sessions) = Cardinality(DOMAIN w2p)
    /\ \A p \in DOMAIN sessions :
          /\ sessions[p].player_id = p
          /\ sessions[p].websocket \in DOMAIN w2p
          /\ w2p[sessions[p].websocket] = p
    /\ \A c \in DOMAIN w2p :
          w2p[c] \in DOMAIN sessions /\ sessions[w2p[c]].websocket = c
    /\ \A p, q \in DOMAIN sessions :
          p # q => sessions[p].websocket # sessions[q].websocket

\* C9 witness: a registry filled again after clear_all emptied it (the last
\* add_player found the controller of the cleared session still in place).
C9_Witness ==
    /\ Cardinality(DOMAIN sessions) = MAX_PLAYERS
    /\ last.op = "add_player"
    /\ last.ret \in Players
    /\ last.events = <<Ev("shown_connected", last.ret)>>

\* What a device shows when it shows exactly the snapshot st.
ShowsSnapshot(report, st) ==
    /\ report.pressed = {n \in ButtonNames \cap DOMAIN st.buttons : st.buttons[n]}
    /\ report.lt = Clamp(0, Scale, DictGet(st.triggers, "lt", 0))
    /\ report.rt = Clamp(0, Scale, DictGet(st.triggers, "rt", 0))
    /\ report.left_x = Clamp(-Scale, Scale, DictGet(st.axes, "left_x", 0))
    /\ report.left_y = Clamp(-Scale, Scale, DictGet(st.axes, "left_y", 0))
    /\ report.right_x = Clamp(-Scale, Scale, DictGet(st.axes, "right_x", 0))
    /\ report.right_y = Clamp(-Scale, Scale, DictGet(st.axes, "right_y", 0))

\* C10: after an input message the device shows the latest snapshot and
\* nothing of the earlier ones: a button the snapshot does not name is
\* released.
C10_SnapshotReplacesState ==
    \A p \in DOMAIN controllers :
       IsConnected(controllers[p]) =>
          ShowsSnapshot(controllers[p].gamepad[1], controllers[p].state)

\* The value v limited to lo..hi.
Saturated(lo, hi, v) == IF v < lo THEN lo ELSE IF v > hi THEN hi ELSE v

\* The device shows the triggers and axes of the snapshot, limited to their
\* ranges, an absent one as 0.
ShowsLimited(report, triggers, axes) ==
    /\ report.lt = Saturated(0, Scale, DictGet(triggers, "lt", 0))
    /\ report.rt = Saturated(0, Scale, DictGet(triggers, "rt", 0))
    /\ report.left_x = Saturated(-Scale, Scale, DictGet(axes, "left_x", 0))
    /\ report.left_y = Saturated(-Scale, Scale, DictGet(axes, "left_y", 0))
    /\ report.right_x = Saturated(-Scale, Scale, DictGet(axes, "right_x", 0))
    /\ report.right_y = Saturated(-Scale, Scale, DictGet(axes, "right_y", 0))

\* The step processes an "input" message of connection c.
InputStep(c) ==
    last'.op = "message" /\ last'.ws = c /\ last'.how = "input"

C11_Inv ==
    \A p \in DOMAIN controllers :
       IsConnected(controllers[p]) =>
          LET report == controllers[p].gamepad[1]
          IN  /\ report.lt \in 0..Scale /\ report.rt \in 0..Scale
              /\ \A n \in {"left_x", "left_y", "right_x", "right_y"} :
                    report[n] \in (-Scale)..Scale

C11_Act ==
    \A c \in Conns :
       (InputStep(c) /\ pid[c] \in DOMAIN controllers
          /\ IsConnected(controllers[pid[c]])) =>
          LET m == last'.msg.data
              after == controllers'[pid[c]]
          IN  /\ ShowsLimited(after.gamepad[1], m.triggers, m.axes)
              /\ after.state.triggers = m.triggers
              /\ after.state.axes = m.axes
              /\ last'.events = <<Ev("device_update", pid[c])>>
              /\ conn'[c] = "open" /\ pc'[c] = "loop"

\* C11: every device always shows triggers within [0,1] and axes within
\* [-1,1]; an "input" message for a bound player is applied whatever numbers
\* it carries: afterwards the device shows each sent trigger and axis value
\* limited to its range (an absent one as 0) and the connection stays open.
C11_InputIsClamped == []C11_Inv /\ [][C11_Act]_vars

\* C11 witness: a message with lt = 1.5 and left_x = -5 was applied and the
\* device shows lt = 1.0 and left_x = -1.0.
C11_Witness ==
    /\ last.op = "message" /\ last.how = "input"
    /\ last.events # <<>>
    /\ DictGet(last.msg.data.triggers, "lt", 0) = 3
    /\ DictGet(last.msg.data.axes, "left_x", 0) = -10
    /\ \E p \in DOMAIN controllers :
          /\ controllers[p].gamepad[1].lt = Scale
          /\ controllers[p].gamepad[1].left_x = -Scale

C12_Inv ==
    \A p \in DOMAIN controllers, m \in SnapshotMsgs :
       LET off == Disconnect(controllers[p]).ctrl
       IN  UpdateState(off, m.buttons, m.triggers, m.axes) = off

C12_Act ==
    \A c \in Conns :
       (InputStep(c) /\ pid[c] \notin DOMAIN controllers) =>
          /\ last'.events = <<>>
          /\ UNCHANGED <<sessions, w2p, controllers, shown, mk>>
          /\ conn'[c] = "open" /\ pc'[c] = "loop"

\* C12: an "input" message of a player without a controller makes no device
\* call, changes no controller (nor anything else of the registry) and leaves
\* the connection open in its receive loop; update_state on a controller that
\* has been disconnected changes nothing.
C12_InputWithoutBindingIsNoOp == []C12_Inv /\ [][C12_Act]_vars

\* C12 witness: a player whose device could not be created sent a snapshot
\* with a pressed button, while nothing is bound.
C12_Witness ==
    /\ last.op = "message" /\ last.how = "input"
    /\ pid[last.ws] \in DOMAIN sessions
    /\ pid[last.ws] \notin DOMAIN controllers
    /\ \E n \in DOMAIN last.msg.data.buttons : last.msg.data.buttons[n]
    /\ last.events = <<>>

\* The message types _process_message has a branch for.
KnownTypes == {"input", "mouse", "keyboard", "ping", "disconnect"}

\* The step processes a frame of connection c.
MessageStep(c) == last'.op = "message" /\ last'.ws = c

\* The frame processed in the step is a JSON object.
ObjectStep(c) == MessageStep(c) /\ last'.msg.json = "object"

\* C13: a message whose type is none of input, mouse, keyboard, ping,
\* disconnect, or that has no type, changes no session (its activity
\* timestamp included), no controller, nothing else of the registry and not
\* the sink; no call is made on a device, the sink or a connection, and the
\* connection stays open in its receive loop.
C13_UnknownTypeIsIgnored ==
    [][\A c \in Conns :
         (ObjectStep(c) /\ DictGet(last'.msg.data, "type", "") \notin KnownTypes) =>
            /\ UNCHANGED <<sessions, w2p, controllers, shown, mk, conn>>
            /\ last'.events = <<>>
            /\ conn'[c] = "open" /\ pc'[c] = "loop"
      ]_vars

\* C13 witness: a message of unknown type arrived from a player whose last
\* activity lies in the past, whose device shows a pressed button, while the
\* sink holds the left mouse button.
C13_Witness ==
    /\ last.op = "message" /\ last.how = "bogus"
    /\ pid[last.ws] \in DOMAIN sessions
    /\ sessions[pid[last.ws]].last_input_at < clock
    /\ pid[last.ws] \in DOMAIN controllers
    /\ controllers[pid[last.ws]].gamepad[1].pressed = {"a"}
    /\ mk # <<>> /\ mk[1].left

\* C14: a message of a known type from a player with a session, processed
\* without an exception, sets the session's activity timestamp to the time
\* of processing.
C14_KnownTypeUpdatesActivity ==
    [][\A c \in Conns :
         (ObjectStep(c) /\ last'.how \in KnownTypes
            /\ pid[c] \in DOMAIN sessions
            /\ \A i \in 1..Len(last'.events) : last'.events[i].kind # "raised") =>
               /\ pid[c] \in DOMAIN sessions'
               /\ sessions'[pid[c]].last_input_at = clock
      ]_vars

\* The frame processed in the step is malformed: not JSON, or JSON that is
\* not an object with a "type" field.
MalformedStep(c) ==
    /\ MessageStep(c)
    /\ last'.msg.json = "object" => "type" \notin DOMAIN last'.msg.data

C15_Inv ==
    (last.op = "message"
       /\ (last.msg.json = "object" => "type" \notin DOMAIN last.msg.data)) =>
       /\ pc[last.ws] = "loop" /\ conn[last.ws] = "open"
       /\ ENABLED Receive(last.ws, TextFrame(PlainMsg("ping")))

C15_Act ==
    \A c \in Conns :
       MalformedStep(c) =>
          /\ UNCHANGED <<running, server, status, stopPc, sessions, w2p,
                         controllers, shown, pc, conn, pid, mk>>
          /\ c \in DOMAIN w2p' /\ SessionsOf(c)' = {pid[c]}
          /\ \A i \in 1..Len(last'.events) :
                last'.events[i].kind \in {"raised"}

\* C15: a malformed frame changes nothing but the log: the handler stays in
\* its receive loop with the connection open, the session and the controller
\* stay as they were, no call is made on a device, the sink or a connection,
\* and the next frame of the connection is processed.
C15_MalformedFrameIsDiscarded == []C15_Inv /\ [][C15_Act]_vars

\* C15 witness: text that is not JSON arrived from a player with a device
\* while another player was connected.
C15_Witness ==
    /\ last.op = "message" /\ last.msg.json = "invalid"
    /\ pid[last.ws] \in DOMAIN controllers
    /\ Cardinality(LiveHandlers) = 2

\* C16: a "ping" makes exactly one send, of a "pong", on the connection the
\* ping came from.
C16_PingIsAnsweredOnce ==
    [][\A c \in Conns :
         (MessageStep(c) /\ last'.how = "ping") =>
            /\ last'.events = <<Ev("send_pong", c)>>
            /\ UNCHANGED <<sessions, w2p, controllers, shown, conn, pc>>
      ]_vars

\* C16 witness: with two players connected, the second one sent a ping and
\* the pong went out on its connection.
C16_Witness ==
    /\ last.op = "message" /\ last.how = "ping"
    /\ last.ws = 2
    /\ last.events = <<Ev("send_pong", 2)>>
    /\ Cardinality(LiveHandlers) = 2

C17_Act ==
    \A c \in Conns :
       /\ (MessageStep(c) /\ last'.how = "disconnect") =>
             /\ conn' = [conn EXCEPT ![c] = "closed"]
             /\ UNCHANGED <<sessions, w2p, controllers, shown, pc>>
       /\ (pc[c] = "loop" /\ conn[c] = "closed" /\ pc'[c] # "loop") =>
             /\ last'.op = "handler_end" /\ last'.ret = pid[c]
             /\ c \notin DOMAIN w2p'
             /\ pid[c] \notin DOMAIN sessions'
             /\ pid[c] \notin DOMAIN controllers'
             /\ \A d \in Conns \ {c} : conn'[d] = conn[d] /\ pc'[d] = pc[d]
       /\ (pc[c] = "loop" /\ conn[c] = "closed") => ~MessageStep(c)

\* C17: a "disconnect" message closes the sender's connection and no other;
\* the handler of a closed connection processes no further frame, leaves its
\* receive loop, and on leaving removes the sender's session and controller
\* without touching another connection.
C17_DisconnectClosesSender ==
    /\ [][C17_Act]_vars
    /\ \A c \in 1..LoopConns :
          (pc[c] = "loop" /\ conn[c] = "closed") ~> (pc[c] = "idle")

\* C17 witness: a player with a device has just sent "disconnect": the
\* connection is closed, the handler has yet to leave its receive loop, and
\* the other player's connection is open.
C17_Witness ==
    /\ last.op = "message" /\ last.how = "disconnect"
    /\ conn[last.ws] = "closed" /\ pc[last.ws] = "loop"
    /\ pid[last.ws] \in DOMAIN controllers
    /\ \E d \in LiveHandlers \ {last.ws} : conn[d] = "open" /\ pc[d] = "loop"

\* The calls of kind k in a record of calls.
CallsOf(events, k) == {i \in 1..Len(events) : events[i].kind = k}

C18_Inv ==
    \A p \in DOMAIN controllers :
       LET d == Disconnect(controllers[p])
           rc == RemoveController(controllers, p)
       IN  /\ ~d.raised
           /\ d.ctrl.gamepad = <<>>
           /\ ~IsConnected(d.ctrl)
           /\ d.events[Len(d.events)] = Ev("device_destroy", p)
           /\ ~rc.raised
           /\ rc.controllers = [q \in DOMAIN controllers \ {p} |-> controllers[q]]

C18_Act ==
    \A p \in Players :
       (p \in DOMAIN controllers /\ last'.op \in {"handler_end", "stop"}
          /\ (last'.op = "handler_end" => last'.ret = p)) =>
          /\ p \notin DOMAIN controllers'
          /\ SelectSeq(last'.events, LAMBDA e : e.id = p /\ IsDestroy(e))
                = <<Ev("device_destroy", p)>>
          /\ controllers[p].gamepad[1].fault =>
                CallsOf(last'.events, "device_reset_raised") # {}
          /\ last'.op = "handler_end" =>
                /\ last'.events[Len(last'.events)] = Ev("shown_disconnected", p)
                /\ pc'[last'.ws] = "idle"

\* C18: disconnect() of a controller with a device always drops the handle,
\* leaves is_connected false and raises nothing, also when the reset fails;
\* remove_controller then deletes the entry from the controller map.  So the
\* end of a handler, and stop(), destroy the device of every player they
\* release exactly once, and the caller carries on.
C18_ReleaseAlwaysDestroys == []C18_Inv /\ [][C18_Act]_vars

\* C18 witness: a handler ended for a player whose device had failed: the
\* reset raised, the device was destroyed all the same, and the player was
\* reported disconnected.
C18_Witness ==
    /\ last.op = "handler_end"
    /\ last.events = <<Ev("device_reset_raised", last.ret),
                       Ev("device_destroy", last.ret),
                       Ev("shown_disconnected", last.ret)>>
    /\ last.ret \notin DOMAIN controllers

\* The server is stopped: it has no listening socket and no stop() under way.
Stopped == stopPc = "idle" /\ server \in {"none", "closed"}

C19_Inv ==
    /\ Stopped => sessions = EmptyDict /\ w2p = EmptyDict /\ controllers = EmptyDict
    /\ last.op = "stop" => Stopped

C19_Act ==
    /\ last'.op = "stop" =>
          \A p \in DOMAIN controllers :
             SelectSeq(last'.events, LAMBDA e : e.id = p /\ IsDestroy(e))
                = <<Ev("device_destroy", p)>>
    /\ (last'.op = "start" /\ last'.how = "ok") =>
          /\ server' = "open"
          /\ sessions' = EmptyDict /\ w2p' = EmptyDict /\ controllers' = EmptyDict
    /\ \A c \in Conns :
          Accepted(c) =>
             /\ pid'[c] = LowestUnused(sessions)
             /\ CallsOf(last'.events, "device_create") # {} =>
                   /\ controllers'[pid'[c]].gamepad = <<NeutralReport>>
                   /\ controllers'[pid'[c]].state = DefaultState

\* C19: whenever the server is stopped, and so whenever stop() has completed,
\* the registry's two maps and the controller map are empty, and stop() has
\* destroyed the device of every controller that was still bound; a start()
\* that succeeds begins with all three empty, and every connection accepted
\* gets the lowest id without a session and, when its device is created, a
\* device in the neutral state: the first four after a restart get 1..4.
C19_StopLeavesCleanState == []C19_Inv /\ [][C19_Act]_vars

\* C19 witness: start() has just succeeded on a server that stop() had
\* closed, after a player had been connected: all three maps are empty and
\* the next four connections get ids 1..4.
C19_Witness ==
    /\ last.op = "start" /\ last.how = "ok"
    /\ last.events = <<Ev("serve", "closed")>>
    /\ devFailures = 0
    /\ \E p \in Players : shown[p]
    /\ sessions = EmptyDict /\ w2p = EmptyDict /\ controllers = EmptyDict

\* The lifecycle state of the server.
Lifecycle ==
    IF stopPc = "waiting" THEN "Stopping"
    ELSE IF server = "open" THEN "Running"
    ELSE "Stopped"

\* C20: the lifecycle only moves Stopped -> Running (through Starting),
\* Running -> Stopping and Stopping -> Stopped, and a call of start() while
\* Running changes nothing: no listening socket is opened, no state changes
\* and no status notification is fired.
C20_LinearLifecycleStartNoOp ==
    [][/\ Lifecycle' # Lifecycle =>
             <<Lifecycle, Lifecycle'>> \in {<<"Stopped", "Running">>,
                                           <<"Running", "Stopping">>,
                                           <<"Stopping", "Stopped">>}
       /\ (last'.op = "start" /\ Lifecycle = "Running") =>
             /\ last'.how # "raised"
             /\ UNCHANGED <<running, server, status, stopPc, sessions, w2p,
                            controllers, shown, pc, conn, pid>>
      ]_vars

\* stop() finds nothing to stop: the server was never started, or the last
\* thing it reported is that it has stopped.
NothingToStop ==
    /\ server \in {"none", "closed"}
    /\ status \in {"none", "stopped"}

\* C21: a stop() called while the server is already Stopped (never started,
\* or stopped before) changes no state, releases no device and fires no
\* 'stopped' status notification.
C21_StopWhenStoppedIsNoOp ==
    [][(last'.op \in {"stop", "stop_begin"} /\ NothingToStop) =>
          /\ UNCHANGED <<running, server, status, sessions, w2p, controllers,
                         shown>>
          /\ CallsOf(last'.events, "status_stopped") = {}
          /\ CallsOf(last'.events, "device_destroy") = {}
      ]_vars

\* C22: when start() fails to bind the listening socket, the exception is
\* raised to the caller, 'error' is the status notified (and 'running' is
\* not), no listening socket is left open by the attempt, is_running is
\* false afterwards, and connections are accepted only by a server whose
\* start() succeeded.
C22_BindFailureIsSurfaced ==
    [][/\ (last'.op = "start" /\ server' # "open") =>
             /\ last'.how = "raised"
             /\ status' = "error"
             /\ server' = server
             /\ ~IsRunning'
       /\ last'.op = "add_player" => (server = "open" /\ status = "running")
      ]_vars

C23_Inv == stopPc = "waiting" => (server # "open" /\ ~running)

C23_Act ==
    /\ last'.op = "stop_begin" =>
          /\ server' # "open"
          /\ \A c \in Conns : conn'[c] = "closed"
          /\ UNCHANGED <<status, sessions, w2p, controllers, shown>>
    /\ stopPc = "waiting" =>
          /\ last'.op # "add_player"
          /\ DOMAIN sessions' \subseteq DOMAIN sessions
          /\ stopPc' = "waiting" =>
                /\ status' = status
                /\ CallsOf(last'.events, "status_stopped") = {}
                /\ \A p \in DOMAIN controllers \ DOMAIN controllers' :
                      last'.op = "handler_end" /\ last'.ret = p
    /\ (last'.op = "stop" /\ server # "none") =>
          \A c \in Conns : pc[c] = "idle" /\ conn[c] = "closed"
    /\ last'.op = "stop" =>
          /\ last'.events[Len(last'.events)] = Ev("status_stopped", 0)
          /\ CallsOf(last'.events, "status_stopped") = {Len(last'.events)}
          /\ \A p \in DOMAIN controllers :
                CallsOf(last'.events, "device_destroy")
                   \cap {i \in 1..Len(last'.events) : last'.events[i].id = p} # {}
          /\ sessions' = EmptyDict /\ w2p' = EmptyDict
          /\ controllers' = EmptyDict
          /\ status' = "stopped"

\* C23: stop() first stops accepting and closes the listening socket and the
\* open connections; while it waits, no session is registered, no status is
\* notified and controllers are released only by handlers that end; it goes
\* on only when every connection handler has returned; then it releases the
\* controllers that remain and clears the registry, and the 'stopped'
\* notification comes after all of that.
C23_StopRunsInOrder == []C23_Inv /\ [][C23_Act]_vars

\* C23 witness: stop() has completed on a server that was listening, and it
\* released a controller that no handler had released before notifying
\* 'stopped'.
C23_Witness ==
    /\ last.op = "stop"
    /\ server = "closed"
    /\ status = "stopped"
    /\ CallsOf(last.events, "device_destroy") # {}
    /\ Len(last.events) = Cardinality(CallsOf(last.events, "device_destroy")) * 2 + 1

\* The websockets broadcast() has to send to, given the registry it finds.
Recipients(exclude_player) ==
    {sessions[p].websocket : p \in {q \in DOMAIN sessions : q # exclude_player}}

\* The websockets a record of send calls was made on.
SentTo(events) == {events[i].id : i \in 1..Len(events)}

\* A step of broadcast() during which, and before which, the registry was
\* as the call found it.
UndisturbedStep ==
    /\ last'.op \in {"broadcast", "broadcast_send"}
    /\ ~last'.dirty

C24_Act ==
    /\ (UndisturbedStep /\ bc # <<>>) =>
          LET b == bc[1]
              e == last'.events[Len(last'.events)]
          IN  /\ Len(last'.events) = Len(b.events) + 1
              /\ e = Ev(IF conn[b.ws] = "open" THEN "send_message"
                        ELSE "send_raised_message", b.ws)
              /\ Recipients(b.exclude) \ SentTo(last'.events) # {} =>
                    /\ bc' # <<>>
                    /\ bc'[1].ws \in Recipients(b.exclude) \ SentTo(last'.events)
    /\ (UndisturbedStep /\ last'.op = "broadcast") =>
          /\ last'.how = "ok"
          /\ SentTo(last'.events) = Recipients(last'.ret)
          /\ Len(last'.events) = Cardinality(Recipients(last'.ret))

C30_BroadcastSurvivesRegistryChanges ==
    [][last'.op = "broadcast" =>
          /\ last'.how = "ok"
          /\ {sessions[p].websocket :
                 p \in {q \in last'.whole : q # last'.ret}}
                \subseteq SentTo(last'.events)
      ]_vars

\* The observer called by the last operation raised.
ObserverRaised(op) == CallsOf(op.events, "observer_raised") # {}

C25_Inv ==
    /\ \A c \in 1..ObsConns :
          ENABLED ApiAddPlayer(c, TRUE) /\ ENABLED ApiRemovePlayer(c)
    /\ ObserverRaised(last) => last.how # "raised"

C25_Act ==
    \A c \in 1..ObsConns :
       /\ (last'.op = "add_player" /\ last'.ws = c /\ c \notin DOMAIN w2p
             /\ Cardinality(DOMAIN sessions) < MAX_PLAYERS) =>
             LET p == CHOOSE q \in Players \ DOMAIN sessions :
                         \A r \in Players \ DOMAIN sessions : q <= r
             IN  /\ last'.ret = p
                 /\ DOMAIN sessions' = DOMAIN sessions \cup {p}
                 /\ sessions'[p].websocket = c
                 /\ w2p' = DictSet(w2p, c, p)
                 /\ ~guiOk => ObserverRaised(last') /\ shown' = shown
       /\ (last'.op = "remove_player" /\ last'.ws = c /\ c \in DOMAIN w2p) =>
             /\ last'.ret = w2p[c]
             /\ sessions' = DictDel(sessions, w2p[c])
             /\ w2p' = DictDel(w2p, c)
             /\ w2p[c] \notin DOMAIN controllers'
             /\ ~guiOk => ObserverRaised(last') /\ shown' = shown

\* C25: when the observer called by add_player or remove_player raises, the
\* call still returns the player id, the session has been registered (or
\* removed) in both maps, nothing is raised to the caller, and add_player
\* and remove_player can be called again and behave as before.
C25_ObserverExceptionIsContained == []C25_Inv /\ [][C25_Act]_vars

\* C25 witness: add_player has returned an id although its observer raised,
\* and it is the second call to do so: two players are registered that the
\* GUI was never told about.
C25_Witness ==
    /\ last.op = "add_player" /\ ObserverRaised(last)
    /\ last.ret \in DOMAIN sessions
    /\ \E p \in DOMAIN sessions : p # last.ret /\ ~shown[p]

C26_Inv ==
    \A c \in 1..FifoConns :
       /\ pc[c] = "processing" <=> inbox[c].cur # <<>>
       /\ pc[c] \in {"idle", "welcome"} => inbox[c].cur = <<>>

C26_Act ==
    \A c \in 1..FifoConns :
       LET q == inbox[c].queue
           mine == last'.op = "message" /\ last'.ws = c
       IN  /\ (mine /\ last'.how = "arrived") =>
                 inbox'[c] = [inbox[c] EXCEPT !.queue = Append(q, last'.msg)]
           /\ (mine /\ last'.how = "fetched") =>
                 /\ pc[c] = "loop" /\ inbox[c].cur = <<>> /\ q # <<>>
                 /\ last'.msg = q[1]
                 /\ inbox'[c] = [queue |-> Tail(q), cur |-> <<q[1]>>]
                 /\ pc'[c] = "processing"
           /\ (mine /\ last'.how \notin {"arrived", "fetched"}) =>
                 /\ pc[c] = "processing"
                 /\ last'.msg = inbox[c].cur[1]
                 /\ inbox'[c] = [queue |-> q, cur |-> <<>>]
                 /\ pc'[c] = "loop"
           /\ (~mine /\ ~Accepted(c)) => inbox'[c] = inbox[c]
           /\ (pc'[c] = "processing" /\ pc[c] # "processing") => mine
           /\ (pc'[c] = "loop" /\ pc[c] \notin {"loop", "processing"}) =>
                 /\ pc[c] = "welcome"
                 /\ last' = Op("welcome", c, pid[c], "ok",
                               <<Ev("send_connected", c)>>)

\* C26: the handler of a connection takes the frames of that connection in
\* the order they arrived, one at a time: it fetches the frame that has
\* waited longest only when it is at the head of its receive loop, it
\* processes the frame it fetched, reply included, before it is back there,
\* and it reaches the receive loop only by sending the 'connected' frame.
C26_MessagesInArrivalOrder == []C26_Inv /\ [][C26_Act]_vars

\* C26 witness: the handler has finished a ping by sending the pong while a
\* later frame of the same connection was waiting in the queue.
C26_Witness ==
    /\ last.op = "message" /\ last.how = "ping"
    /\ last.events = <<Ev("send_pong", last.ws)>>
    /\ pc[last.ws] = "loop"
    /\ Len(inbox[last.ws].queue) = 1
    /\ inbox[last.ws].queue[1] = TextFrame(PlainMsg("bogus"))

\* The last step was taken by the handler of connection c or by its peer.
StepOf(c) ==
    /\ last'.ws = c
    /\ last'.op \in {"message", "handler_end", "peer_close", "welcome"}

\* Player q's session, controller and binding are what they were.
PlayerUntouched(q) ==
    /\ q \in DOMAIN sessions' <=> q \in DOMAIN sessions
    /\ q \in DOMAIN sessions => sessions'[q] = sessions[q]
    /\ q \in DOMAIN controllers' <=> q \in DOMAIN controllers
    /\ q \in DOMAIN controllers => controllers'[q] = controllers[q]
    /\ shown'[q] = shown[q]

C27_Act ==
    \A c \in Conns :
       StepOf(c) =>
          /\ \A q \in Players \ {pid[c]} : PlayerUntouched(q)
          /\ \A d \in Conns \ {c} :
                /\ conn'[d] = conn[d] /\ pc'[d] = pc[d] /\ pid'[d] = pid[d]
                /\ d \in DOMAIN w2p' <=> d \in DOMAIN w2p
                /\ d \in DOMAIN w2p => w2p'[d] = w2p[d]
          /\ UNCHANGED <<running, server, status, stopPc>>
          /\ (last'.op = "message" /\ last'.how = "input") =>
                /\ conn'[c] = conn[c] /\ pc'[c] = pc[c] /\ pid'[c] = pid[c]
                /\ UNCHANGED <<w2p, shown>>
                /\ DOMAIN sessions' = DOMAIN sessions
                /\ DOMAIN controllers' = DOMAIN controllers

\* C27: a step of the handler of player p's connection (a message of any
\* kind, malformed or raising ones included, the end of its receive loop in
\* any way, a failed welcome) or of its peer leaves every other player's
\* session, controller, device and binding, every other connection and its
\* handler, and the server's running state as they were; an 'input' message
\* changes nothing but p's controller and p's activity time.
C27_ConnectionsAreIsolated == [][C27_Act]_vars

\* C27 witness: an 'input' message of one player has just raised on its
\* failed device, while another player's controller holds button a pressed
\* and that player's handler is in its receive loop.
C27_Witness ==
    /\ last.op = "message" /\ last.how = "input"
    /\ last.events = <<Ev("raised", "input")>>
    /\ \E d \in Conns \ {last.ws} :
          /\ pc[d] = "loop" /\ conn[d] = "open"
          /\ pid[d] \in DOMAIN controllers
          /\ controllers[pid[d]].state.buttons["a"]

\* The keyboard key a key string stands for.
KeyOf(k) == IF k \in SingleChars THEN k ELSE Lower(k)

\* The keys of a list, as keyboard keys.
RECURSIVE KeysOf(_)
KeysOf(keys) ==
    IF keys = <<>> THEN <<>> ELSE <<KeyOf(Head(keys))>> \o KeysOf(Tail(keys))

\* The keys down after a sequence of press and release calls.
RECURSIVE Down(_)
Down(events) ==
    IF events = <<>> THEN {}
    ELSE LET e == events[Len(events)]
             before == Down(SubSeq(events, 1, Len(events) - 1))
         IN  IF e.kind = "key_press" THEN before \cup {e.id}
             ELSE before \ {e.id}

\* C28: key_combination(keys), for a non-empty list, presses every key but
\* the last in list order, presses and releases the last key, and releases
\* the keys it holds in the reverse order; no key is down when it returns.
C28_KeyCombinationOrder ==
    [][last'.op = "key_combination" =>
          LET keys == KeysOf(last'.keys)
              held == SubSeq(keys, 1, Len(keys) - 1)
          IN  /\ last'.events = KeyEvents("key_press", held)
                                  \o Tap(keys[Len(keys)])
                                  \o KeyEvents("key_release", Reversed(held))
              /\ Down(last'.events) = {}
      ]_vars

\* C29: every session in the registry, and every controller, belongs to a
\* connection whose handler is still running and so still has its cleanup
\* ahead of it: when the 'connected' frame cannot be sent the handler
\* removes the session and releases the controller before it ends, so no
\* player id stays taken by a connection that is gone, and the registry is
\* never full of such ids.
C29_NoSlotLeakInHandshake ==
    /\ \A p \in DOMAIN sessions : pc[sessions[p].websocket] # "idle"
    /\ \A p \in DOMAIN controllers : p \in DOMAIN sessions
    /\ (last.op = "welcome" /\ last.how = "raised") =>
          /\ last.ws \notin DOMAIN w2p
          /\ last.ret \notin DOMAIN sessions
          /\ last.ret \notin DOMAIN controllers
    /\ (last.op = "add_player" /\ last.ret = None) =>
          \A p \in Players : pc[sessions[p].websocket] # "idle"

\* The players a record of calls reports in the given way.
Reported(events, kind) ==
    {events[i].id : i \in CallsOf(events, kind)}

C31_Inv == last.op = "stop" => \A p \in Players : ~shown[p]

C31_Act ==
    /\ \A p \in Reported(last'.events, "shown_connected") :
          /\ ~shown[p]
          /\ Cardinality({i \in CallsOf(last'.events, "shown_connected") :
                             last'.events[i].id = p}) = 1
    /\ \A p \in Reported(last'.events, "shown_disconnected") :
          /\ shown[p]
          /\ Cardinality({i \in CallsOf(last'.events, "shown_disconnected") :
                             last'.events[i].id = p}) = 1
    /\ last'.op = "stop" =>
          DOMAIN sessions \subseteq Reported(last'.events, "shown_disconnected")

\* C31: on_player_update(p, True) is called only for a player not reported
\* connected, on_player_update(p, False) only for one that is, each once; a
\* stop() reports every session it removes as disconnected, and when it has
\* completed no player is reported connected.
C31_NotificationsAreBalanced == []C31_Inv /\ [][C31_Act]_vars

====
